---- MODULE Spec2Model ----
(* SysCall Secure: the simulated kernel of src/script.js.                    *)
(* A JavaScript string is the sequence of its characters, so that split,     *)
(* includes and startsWith are computed on the text itself.                  *)
EXTENDS Integers, Sequences, FiniteSets, TLC

\* Kernel.login: the two hardcoded credential pairs
s_admin ==
  <<"a","d","m","i","n">>
s_user ==
  <<"u","s","e","r">>
s_admin123 ==
  <<"a","d","m","i","n","1","2","3">>
s_user123 ==
  <<"u","s","e","r","1","2","3">>

\* Kernel.syscall: the texts its checks search for
s_slash_shadow ==
  <<"/","s","h","a","d","o","w">>
s_slash_etc ==
  <<"/","e","t","c">>
s_Permission ==
  <<"P","e","r","m","i","s","s","i","o","n">>

\* messages of the errors thrown and of the audit entries, and result texts
m_NotLoggedIn ==
  <<"N","o","t"," ","l","o","g","g","e","d"," ","i","n">>
m_RequiresRoot ==
  <<"P","e","r","m","i","s","s","i","o","n"," ","d","e","n","i","e","d",":"," ","r","e","q","u","i","r","e","s"," ","r","o","o","t">>
m_FileNotFound ==
  <<"F","i","l","e"," ","n","o","t"," ","f","o","u","n","d">>
m_PermissionDenied ==
  <<"P","e","r","m","i","s","s","i","o","n"," ","d","e","n","i","e","d">>
m_EtcReadOnly ==
  <<"P","e","r","m","i","s","s","i","o","n"," ","d","e","n","i","e","d",":"," ","/","e","t","c"," ","i","s"," ","r","e","a","d","-","o","n","l","y">>
m_UnknownSyscall ==
  <<"U","n","k","n","o","w","n"," ","s","y","s","t","e","m"," ","c","a","l","l">>
m_ProcessNotFound ==
  <<"P","r","o","c","e","s","s"," ","n","o","t"," ","f","o","u","n","d">>
m_ParentMissing ==
  <<"P","a","r","e","n","t"," ","d","i","r","e","c","t","o","r","y"," ","d","o","e","s"," ","n","o","t"," ","e","x","i","s","t">>
m_AlreadyExists ==
  <<"F","i","l","e"," ","a","l","r","e","a","d","y"," ","e","x","i","s","t","s">>
m_IsADirectory ==
  <<"I","s"," ","a"," ","d","i","r","e","c","t","o","r","y">>
m_DirNotFound ==
  <<"D","i","r","e","c","t","o","r","y"," ","n","o","t"," ","f","o","u","n","d">>
m_NotADirectory ==
  <<"N","o","t"," ","a"," ","d","i","r","e","c","t","o","r","y">>
m_Success ==
  <<"S","u","c","c","e","s","s">>
m_AuthSuccessful ==
  <<"A","u","t","h"," ","s","u","c","c","e","s","s","f","u","l">>
m_InvalidCredentials ==
  <<"I","n","v","a","l","i","d"," ","c","r","e","d","e","n","t","i","a","l","s">>
m_FileDescriptor ==
  <<"F","i","l","e"," ","D","e","s","c","r","i","p","t","o","r"," ","[","M","o","c","k","e","d","]">>
m_OsName ==
  <<"S","y","s","C","a","l","l"," ","S","e","c","u","r","e"," ","v","1",".","0">>

\* the engine's TypeError for a method read on undefined or null
s_undefined ==
  <<"u","n","d","e","f","i","n","e","d">>
s_null ==
  <<"n","u","l","l">>
m_CannotRead ==
  <<"C","a","n","n","o","t"," ","r","e","a","d"," ","p","r","o","p","e","r","t","i","e","s"," ","o","f"," ">>
m_reading ==
  <<" ","(","r","e","a","d","i","n","g"," ","'">>
k_split ==
  <<"s","p","l","i","t">>
k_includes ==
  <<"i","n","c","l","u","d","e","s">>
k_length ==
  <<"l","e","n","g","t","h">>
k_startsWith ==
  <<"s","t","a","r","t","s","W","i","t","h">>

\* VirtualFileSystem constructor: seeded names and contents; the bootstrap process name
n_home ==
  <<"h","o","m","e">>
n_admin ==
  <<"a","d","m","i","n">>
n_guest ==
  <<"g","u","e","s","t">>
n_etc ==
  <<"e","t","c">>
n_var ==
  <<"v","a","r">>
n_log ==
  <<"l","o","g">>
n_secret_txt ==
  <<"s","e","c","r","e","t",".","t","x","t">>
n_notes_md ==
  <<"n","o","t","e","s",".","m","d">>
n_passwd ==
  <<"p","a","s","s","w","d">>
n_config ==
  <<"c","o","n","f","i","g">>
n_init ==
  <<"i","n","i","t">>
c_secret ==
  <<"C","O","N","F","I","D","E","N","T","I","A","L",":"," ","P","r","o","j","e","c","t"," ","B","l","u","e"," ","B","o","o","k">>
c_notes ==
  <<"#"," ","T","o"," ","D","o","\n","1","."," ","S","e","c","u","r","e"," ","t","h","e"," ","k","e","r","n","e","l","\n","2","."," ","A","u","d","i","t"," ","l","o","g","s">>
c_passwd ==
  <<"a","d","m","i","n",":","x",":","0",":","0",":","r","o","o","t",":","/","h","o","m","e","/","a","d","m","i","n",":","/","b","i","n","/","s","h">>
c_config ==
  <<"m","o","d","e","=","s","e","c","u","r","e">>

\* JSON.stringify({username}): the key text
s_username ==
  <<"\"","u","s","e","r","n","a","m","e","\"",":">>

\* Names every object literal inherits from Object.prototype: children[name]
\* is truthy for them although the directory has no such child.
ProtoNames ==
  { <<"c","o","n","s","t","r","u","c","t","o","r">>,
    <<"t","o","S","t","r","i","n","g">>,
    <<"v","a","l","u","e","O","f">>,
    <<"h","a","s","O","w","n","P","r","o","p","e","r","t","y">>,
    <<"i","s","P","r","o","t","o","t","y","p","e","O","f">>,
    <<"p","r","o","p","e","r","t","y","I","s","E","n","u","m","e","r","a","b","l","e">>,
    <<"t","o","L","o","c","a","l","e","S","t","r","i","n","g">>,
    <<"_","_","p","r","o","t","o","_","_">>,
    <<"_","_","d","e","f","i","n","e","G","e","t","t","e","r","_","_">>,
    <<"_","_","d","e","f","i","n","e","S","e","t","t","e","r","_","_">>,
    <<"_","_","l","o","o","k","u","p","G","e","t","t","e","r","_","_">>,
    <<"_","_","l","o","o","k","u","p","S","e","t","t","e","r","_","_">> }


(***************************************************************************)
(* JavaScript values and string methods                                    *)
(***************************************************************************)
\* undefined and null, kept apart from every string (a string's elements are
\* single characters)
UNDEF == <<"undefined">>
NULL == <<"null">>

IsString(x) == x # UNDEF /\ x # NULL

\* the TypeError message of reading method k on undefined or null
TypeErrorMsg(x, k) ==
  m_CannotRead \o (IF x = NULL THEN s_null ELSE s_undefined) \o m_reading \o k \o <<"'", ")">>

\* String.prototype.includes
includes(s, sub) ==
  \E i \in 0..(Len(s) - Len(sub)) : SubSeq(s, i + 1, i + Len(sub)) = sub

\* String.prototype.startsWith
startsWith(s, pre) ==
  Len(s) >= Len(pre) /\ SubSeq(s, 1, Len(pre)) = pre

\* String.prototype.split('/'): the pieces between separators, empty ones kept
RECURSIVE split(_)
split(s) ==
  IF \A i \in 1..Len(s) : s[i] # "/"
    THEN <<s>>
    ELSE LET i == CHOOSE k \in 1..Len(s) : s[k] = "/" /\ \A j \in 1..(k - 1) : s[j] # "/"
         IN  <<SubSeq(s, 1, i - 1)>> \o split(SubSeq(s, i + 1, Len(s)))

NonEmpty(p) == Len(p) > 0

\* the pieces of the path with the empty ones kept
pathPartsKeepEmpty(path) == split(path)

\* path.split('/').filter(p => p.length > 0)
pathParts(path) == SelectSeq(split(path), NonEmpty)

\* Array.prototype.join('/')
RECURSIVE join(_)
join(ps) ==
  IF ps = <<>> THEN <<>>
  ELSE IF Len(ps) = 1 THEN ps[1]
  ELSE ps[1] \o <<"/">> \o join(Tail(ps))

Digits == {"0", "1", "2", "3", "4", "5", "6", "7", "8", "9"}

DigitVal(c) ==
  CASE c = "0" -> 0 [] c = "1" -> 1 [] c = "2" -> 2 [] c = "3" -> 3 [] c = "4" -> 4
    [] c = "5" -> 5 [] c = "6" -> 6 [] c = "7" -> 7 [] c = "8" -> 8 [] c = "9" -> 9

\* the value of a string of decimal digits
RECURSIVE DecVal(_)
DecVal(s) ==
  IF s = <<>> THEN 0 ELSE 10 * DecVal(SubSeq(s, 1, Len(s) - 1)) + DigitVal(s[Len(s)])

\* a < b for two canonical decimal texts, compared without computing their
\* values (which may exceed the checker's integers)
NumLess(a, b) ==
  \/ Len(a) < Len(b)
  \/ /\ Len(a) = Len(b)
     /\ \E i \in 1..Len(a) :
          /\ DigitVal(a[i]) < DigitVal(b[i])
          /\ \A j \in 1..(i - 1) : a[j] = b[j]

\* 2^32 - 1, the first number that is not an array index
s_4294967295 == <<"4","2","9","4","9","6","7","2","9","5">>

\* An own property key that is an array index ("0", "7", "12": canonical
\* decimal, below 2^32 - 1): Object.keys lists these first, in numeric order.
IsArrayIndex(name) ==
  /\ Len(name) >= 1
  /\ \A i \in 1..Len(name) : name[i] \in Digits
  /\ (Len(name) = 1 \/ name[1] # "0")
  /\ NumLess(name, s_4294967295)

NotArrayIndex(name) == ~IsArrayIndex(name)

\* The key order of children after children[name] = node for a new key:
\* array-index keys ascending, then the other keys in insertion order.
insertKey(children, name) ==
  IF IsArrayIndex(name)
    THEN LET ints == SelectSeq(children, IsArrayIndex)
             strs == SelectSeq(children, NotArrayIndex)
             Below(k) == NumLess(k, name)
             Above(k) == NumLess(name, k)
         IN  SelectSeq(ints, Below) \o <<name>> \o SelectSeq(ints, Above) \o strs
    ELSE Append(children, name)

(***************************************************************************)
(* VirtualFileSystem.  The tree is a function from a node's location (the  *)
(* sequence of keys leading to it from the root, <<>> for the root) to the *)
(* node; a directory's children field lists its keys in Object.keys order. *)
(***************************************************************************)
DirNode(children) == [type |-> "dir", content |-> UNDEF, children |-> children]
FileNode(content) == [type |-> "file", content |-> content, children |-> <<>>]

\* resolvePath's null, and the object a key inherited from Object.prototype
\* yields (a function or Object.prototype itself: no type, no children)
NULLREF == << <<"null">> >>
PROTOREF == << <<"prototype">> >>

\* VirtualFileSystem constructor: the seeded tree
SeedRoot ==
  ( <<>> :> DirNode(<<n_home, n_etc, n_var>>) )
  @@ ( <<n_home>> :> DirNode(<<n_admin, n_guest>>) )
  @@ ( <<n_home, n_admin>> :> DirNode(<<n_secret_txt, n_notes_md>>) )
  @@ ( <<n_home, n_admin, n_secret_txt>> :> FileNode(c_secret) )
  @@ ( <<n_home, n_admin, n_notes_md>> :> FileNode(c_notes) )
  @@ ( <<n_home, n_guest>> :> DirNode(<<>>) )
  @@ ( <<n_etc>> :> DirNode(<<n_passwd, n_config>>) )
  @@ ( <<n_etc, n_passwd>> :> FileNode(c_passwd) )
  @@ ( <<n_etc, n_config>> :> FileNode(c_config) )
  @@ ( <<n_var>> :> DirNode(<<n_log>>) )
  @@ ( <<n_var, n_log>> :> DirNode(<<>>) )

\* node.type
typeOf(r, ref) == IF ref = PROTOREF THEN "undefined" ELSE r[ref].type

hasOwn(r, ref, name) == \E i \in 1..Len(r[ref].children) : r[ref].children[i] = name

\* whether dir.children[name] is truthy
childTruthy(r, ref, name) == hasOwn(r, ref, name) \/ name \in ProtoNames

\* dir.children[name], when truthy
childOf(r, ref, name) == IF hasOwn(r, ref, name) THEN Append(ref, name) ELSE PROTOREF

\* resolvePath's loop over the parts
RECURSIVE walkParts(_, _, _)
walkParts(r, current, ps) ==
  IF ps = <<>> THEN current
  ELSE IF typeOf(r, current) # "dir" \/ ~childTruthy(r, current, Head(ps)) THEN NULLREF
  ELSE walkParts(r, childOf(r, current, Head(ps)), Tail(ps))

\* resolvePath(path): the node's location, NULLREF for null; path.split throws
\* on undefined and null
resolvePath(r, path) ==
  IF path = <<"/">> THEN [ok |-> TRUE, err |-> <<>>, node |-> <<>>]
  ELSE IF ~IsString(path) THEN [ok |-> FALSE, err |-> TypeErrorMsg(path, k_split), node |-> NULLREF]
  ELSE [ok |-> TRUE, err |-> <<>>, node |-> walkParts(r, <<>>, pathParts(path))]

\* '/' + parts.join('/') after parts.pop(); null when there was no part
parentOfParts(ps) ==
  IF Len(ps) = 0 THEN NULL
  ELSE IF Len(ps) = 1 THEN <<"/">>
  ELSE <<"/">> \o join(SubSeq(ps, 1, Len(ps) - 1))

\* getParentPath(path)
getParentPath(path) ==
  IF ~IsString(path) THEN [ok |-> FALSE, err |-> TypeErrorMsg(path, k_split), val |-> NULL]
  ELSE [ok |-> TRUE, err |-> <<>>, val |-> parentOfParts(pathParts(path))]

\* parts[parts.length - 1]: undefined when there is no part
lastOfParts(ps) == IF Len(ps) = 0 THEN UNDEF ELSE ps[Len(ps)]

\* getName(path)
getName(path) == lastOfParts(pathParts(path))

\* resolvePath(path) !== null, on the outcome n of resolvePath
notNull(n) == [ok |-> n.ok, err |-> n.err, val |-> n.ok /\ n.node # NULLREF]

\* fileExists(path)
fileExists(r, path) == notNull(resolvePath(r, path))

\* a faulty assignment of the new file that drops the content it was given
addFileAsDir(r, parent, filename, content) ==
  [p \in (DOMAIN r) \cup {Append(parent, filename)} |->
     IF p = Append(parent, filename) THEN [type |-> "dir", content |-> UNDEF, children |-> <<>>]
     ELSE IF p = parent THEN [r[p] EXCEPT !.children = insertKey(@, filename)]
     ELSE r[p]]

addFileEmpty(r, parent, filename, content) ==
  [p \in (DOMAIN r) \cup {Append(parent, filename)} |->
     IF p = Append(parent, filename) THEN FileNode(<<>>)
     ELSE IF p = parent THEN [r[p] EXCEPT !.children = insertKey(@, filename)]
     ELSE r[p]]

\* the tree after parent.children[filename] = {type: 'file', content}
addFile(r, parent, filename, content) ==
  [p \in (DOMAIN r) \cup {Append(parent, filename)} |->
     IF p = Append(parent, filename) THEN FileNode(content)
     ELSE IF p = parent THEN [r[p] EXCEPT !.children = insertKey(@, filename)]
     ELSE r[p]]

\* a faulty createFile without the test for a name already in the parent
createUnderOverwrites(r, pr, filename, content) ==
  IF ~pr.ok THEN [ok |-> FALSE, err |-> pr.err, root |-> r]
  ELSE IF pr.node = NULLREF \/ typeOf(r, pr.node) # "dir"
    THEN [ok |-> FALSE, err |-> m_ParentMissing, root |-> r]
  ELSE [ok |-> TRUE, err |-> <<>>, root |-> addFile(r, pr.node, filename, content)]

\* createFile after parent = resolvePath(parentPath), whose outcome is pr: the
\* two checks and the assignment
createUnder(r, pr, filename, content) ==
  IF ~pr.ok THEN [ok |-> FALSE, err |-> pr.err, root |-> r]
  ELSE IF pr.node = NULLREF \/ typeOf(r, pr.node) # "dir"
    THEN [ok |-> FALSE, err |-> m_ParentMissing, root |-> r]
  ELSE IF childTruthy(r, pr.node, filename)
    THEN [ok |-> FALSE, err |-> m_AlreadyExists, root |-> r]
  ELSE [ok |-> TRUE, err |-> <<>>, root |-> addFile(r, pr.node, filename, content)]

\* createFile after parentPath = getParentPath(path), whose outcome is pp
createFrom(r, pp, path, content) ==
  IF ~pp.ok THEN [ok |-> FALSE, err |-> pp.err, root |-> r]
  ELSE createUnder(r, resolvePath(r, pp.val), getName(path), content)

\* createFile(path, content = ''): the result and the tree afterwards
createFile(r, path, contentArg) ==
  createFrom(r, getParentPath(path), path, IF contentArg = UNDEF THEN <<>> ELSE contentArg)

\* readFile after node = resolvePath(path), whose outcome is n
readNode(r, n) ==
  IF ~n.ok THEN [ok |-> FALSE, err |-> n.err, val |-> UNDEF]
  ELSE IF n.node = NULLREF THEN [ok |-> FALSE, err |-> m_FileNotFound, val |-> UNDEF]
  ELSE IF typeOf(r, n.node) # "file" THEN [ok |-> FALSE, err |-> m_IsADirectory, val |-> UNDEF]
  ELSE [ok |-> TRUE, err |-> <<>>, val |-> r[n.node].content]

\* readFile(path): the content returned
readFile(r, path) == readNode(r, resolvePath(r, path))

\* a faulty writeFile that makes its checks and leaves the content as it was
writeNodeKeepsContent(r, n, content) ==
  IF ~n.ok THEN [ok |-> FALSE, err |-> n.err, root |-> r]
  ELSE IF n.node = NULLREF THEN [ok |-> FALSE, err |-> m_FileNotFound, root |-> r]
  ELSE IF typeOf(r, n.node) # "file" THEN [ok |-> FALSE, err |-> m_IsADirectory, root |-> r]
  ELSE [ok |-> TRUE, err |-> <<>>, root |-> r]

\* writeFile after node = resolvePath(path), whose outcome is n
writeNode(r, n, content) ==
  IF ~n.ok THEN [ok |-> FALSE, err |-> n.err, root |-> r]
  ELSE IF n.node = NULLREF THEN [ok |-> FALSE, err |-> m_FileNotFound, root |-> r]
  ELSE IF typeOf(r, n.node) # "file" THEN [ok |-> FALSE, err |-> m_IsADirectory, root |-> r]
  ELSE [ok |-> TRUE, err |-> <<>>, root |-> [r EXCEPT ![n.node].content = content]]

\* writeFile(path, content): the result and the tree afterwards
writeFile(r, path, content) == writeNode(r, resolvePath(r, path), content)

\* whether location p is loc or lies below it
atOrBelow(p, loc) == Len(p) >= Len(loc) /\ SubSeq(p, 1, Len(loc)) = loc

\* the children keys without name
withoutKey(children, name) ==
  SelectSeq(children, LAMBDA k : k # name)

\* the tree after delete parent.children[filename]: an own key goes, and with
\* it everything that was reachable only through it; an inherited name stays
removeChild(r, parent, filename) ==
  IF ~hasOwn(r, parent, filename) THEN r
  ELSE [p \in {q \in DOMAIN r : ~atOrBelow(q, Append(parent, filename))} |->
          IF p = parent THEN [r[p] EXCEPT !.children = withoutKey(@, filename)] ELSE r[p]]

\* deleteFile after parent = resolvePath(parentPath), whose outcome is pr;
\* parent.children is undefined on a file and on an inherited object, and
\* reading [filename] of it throws
deleteUnder(r, pr, filename) ==
  IF ~pr.ok THEN [ok |-> FALSE, err |-> pr.err, root |-> r]
  ELSE IF pr.node = NULLREF THEN [ok |-> FALSE, err |-> m_FileNotFound, root |-> r]
  ELSE IF typeOf(r, pr.node) # "dir"
    THEN [ok |-> FALSE, err |-> TypeErrorMsg(UNDEF, filename), root |-> r]
  ELSE IF ~childTruthy(r, pr.node, filename)
    THEN [ok |-> FALSE, err |-> m_FileNotFound, root |-> r]
  ELSE [ok |-> TRUE, err |-> <<>>, root |-> removeChild(r, pr.node, filename)]

\* deleteFile after parentPath = getParentPath(path), whose outcome is pp
deleteFrom(r, pp, path) ==
  IF ~pp.ok THEN [ok |-> FALSE, err |-> pp.err, root |-> r]
  ELSE deleteUnder(r, resolvePath(r, pp.val), getName(path))

\* deleteFile(path): the result and the tree afterwards
deleteFile(r, path) == deleteFrom(r, getParentPath(path), path)

\* the size listDir reports for the child at location c
sizeOf(r, c) ==
  IF r[c].type = "file" THEN Len(r[c].content) ELSE Len(r[c].children)

\* one element of listDir's result
dirEntry(r, ref, key) ==
  [name |-> key, type |-> r[Append(ref, key)].type, size |-> sizeOf(r, Append(ref, key))]

\* whether child.content.length throws for some child: a file whose content is
\* undefined (write_file called without a content argument)
lengthThrows(r, ref) ==
  \E i \in 1..Len(r[ref].children) :
    /\ r[Append(ref, r[ref].children[i])].type = "file"
    /\ ~IsString(r[Append(ref, r[ref].children[i])].content)

\* listDir after node = resolvePath(path), whose outcome is n
listNode(r, n) ==
  IF ~n.ok THEN [ok |-> FALSE, err |-> n.err, val |-> <<>>]
  ELSE IF n.node = NULLREF THEN [ok |-> FALSE, err |-> m_DirNotFound, val |-> <<>>]
  ELSE IF typeOf(r, n.node) # "dir" THEN [ok |-> FALSE, err |-> m_NotADirectory, val |-> <<>>]
  ELSE IF lengthThrows(r, n.node)
    THEN [ok |-> FALSE, err |-> TypeErrorMsg(UNDEF, k_length), val |-> <<>>]
  ELSE [ok |-> TRUE, err |-> <<>>,
        val |-> [i \in 1..Len(r[n.node].children) |-> dirEntry(r, n.node, r[n.node].children[i])]]

\* listDir(path): one entry per key, in Object.keys order
listDir(r, path) == listNode(r, resolvePath(r, path))

(***************************************************************************)
(* The state of one page: the Kernel's fields (fs.root, currentUser,       *)
(* processes, nextPid, logger.logs), the localStorage item the logger      *)
(* writes, and the environment (the clock, whether setItem throws).        *)
(***************************************************************************)
VARIABLES root, currentUser, processes, nextPid, logs, stored, now, storageUp, last

vars == <<root, currentUser, processes, nextPid, logs, stored, now, storageUp, last>>

\* the state as one value, so that an operation is an operator on it
State ==
  [root |-> root, currentUser |-> currentUser, processes |-> processes,
   nextPid |-> nextPid, logs |-> logs, stored |-> stored, now |-> now,
   storageUp |-> storageUp]

\* the texts of the user column
s_system == <<"s","y","s","t","e","m">>
s_anonymous == <<"a","n","o","n","y","m","o","u","s">>

\* currentUser = null
NOUSER == [username |-> NULL, role |-> "null"]

(***************************************************************************)
(* JSON.stringify of what the kernel logs                                  *)
(***************************************************************************)
\* the escape of one character inside a JSON string
jsonChar(c) ==
  IF c = "\"" THEN <<"\\", "\"">>
  ELSE IF c = "\\" THEN <<"\\", "\\">>
  ELSE IF c = "\n" THEN <<"\\", "n">>
  ELSE <<c>>

RECURSIVE jsonEscape(_)
jsonEscape(s) == IF s = <<>> THEN <<>> ELSE jsonChar(Head(s)) \o jsonEscape(Tail(s))

\* a string value; null for null, and for undefined inside an array
jsonValue(x) ==
  IF x = UNDEF \/ x = NULL THEN s_null ELSE <<"\"">> \o jsonEscape(x) \o <<"\"">>

RECURSIVE jsonItems(_)
jsonItems(xs) ==
  IF xs = <<>> THEN <<>>
  ELSE IF Len(xs) = 1 THEN jsonValue(xs[1])
  ELSE jsonValue(xs[1]) \o <<",">> \o jsonItems(Tail(xs))

\* JSON.stringify(args), the rest parameter of syscall
stringifyArgs(args) == <<"[">> \o jsonItems(args) \o <<"]">>

\* JSON.stringify({ username }): an undefined property is left out
stringifyLogin(username) ==
  IF username = UNDEF THEN <<"{", "}">>
  ELSE <<"{">> \o s_username \o jsonValue(username) \o <<"}">>

\* an entry as JSON.stringify writes it: a property whose value is undefined
\* is left out, numbers and strings are kept
jsonEntry(e) ==
  IF e.message = UNDEF THEN [k \in (DOMAIN e) \ {"message"} |-> e[k]] ELSE e

\* an entry as JSON.parse returns it, read by property: one that is absent
\* reads as undefined
parseEntry(x) ==
  IF "message" \in DOMAIN x THEN x
  ELSE [k \in (DOMAIN x) \cup {"message"} |-> IF k = "message" THEN UNDEF ELSE x[k]]

\* JSON.stringify(this.logs), the text kept under the storage key
stringifyLogs(ls) == [kind |-> "text", entries |-> [i \in DOMAIN ls |-> jsonEntry(ls[i])]]

\* localStorage.getItem on a key never written
MISSING == [kind |-> "missing", entries |-> <<>>]

\* localStorage.getItem on a key that holds the empty string
EMPTYITEM == [kind |-> "empty", entries |-> <<>>]

(***************************************************************************)
(* AuditLogger                                                             *)
(***************************************************************************)
\* loadLogs(): data ? JSON.parse(data) : []
loadLogs(item) ==
  IF item.kind # "text" THEN <<>>
  ELSE [i \in DOMAIN item.entries |-> parseEntry(item.entries[i])]

\* a faulty saveLogs that writes the log without its newest entry
saveLogsStale(S) ==
  IF S.storageUp
    THEN [S EXCEPT !.stored = stringifyLogs(IF S.logs = <<>> THEN <<>> ELSE Tail(S.logs))]
    ELSE S

\* a faulty saveLogs that takes the newest entry back when setItem throws
saveLogsRollsBack(S) ==
  IF S.storageUp THEN [S EXCEPT !.stored = stringifyLogs(S.logs)]
  ELSE [S EXCEPT !.logs = IF @ = <<>> THEN <<>> ELSE Tail(@)]

\* saveLogs(): setItem may throw; the error is caught and only printed
saveLogs(S) ==
  IF S.storageUp THEN [S EXCEPT !.stored = stringifyLogs(S.logs)] ELSE S

\* the entry log() builds: id and timestamp are the clock at the call, and a
\* message that is not given takes the default ''
newEntry(S, user, syscallName, params, status, message) ==
  [id |-> S.now, timestamp |-> S.now, user |-> user, syscall |-> syscallName,
   params |-> params, status |-> status,
   message |-> IF message = UNDEF THEN <<>> ELSE message]

\* a faulty log that puts the entry at the end of the array
logAtEnd(S, user, syscallName, params, status, message) ==
  saveLogs([S EXCEPT !.logs = @ \o <<newEntry(S, user, syscallName, params, status, message)>>])

\* log(user, syscall, params, status, message): unshift, then saveLogs
log(S, user, syscallName, params, status, message) ==
  saveLogs([S EXCEPT !.logs = <<newEntry(S, user, syscallName, params, status, message)>> \o @])

\* a faulty clearLogs that empties the array and does not call saveLogs
clearLogsMemoryOnly(S) == [S EXCEPT !.logs = <<>>]

\* clearLogs()
clearLogs(S) == saveLogs([S EXCEPT !.logs = <<>>])

\* a faulty createProcess that takes the lowest pid no process holds
createProcessKeepsNextPid(S, name, owner) ==
  [S EXCEPT !.processes = Append(@, [pid |-> S.nextPid, name |-> name, owner |-> owner,
                                      status |-> "running"])]

createProcessReusesPid(S, name, owner) ==
  [S EXCEPT !.nextPid = @ + 1,
            !.processes = Append(@, [pid |-> CHOOSE n \in 100..S.nextPid :
                                               /\ \A i \in 1..Len(S.processes) : S.processes[i].pid # n
                                               /\ \A m \in 100..(n - 1) :
                                                    \E i \in 1..Len(S.processes) : S.processes[i].pid = m,
                                      name |-> name, owner |-> owner, status |-> "running"])]

(***************************************************************************)
(* Kernel                                                                  *)
(***************************************************************************)
\* createProcess(name, owner): the state afterwards; the pid returned is the
\* nextPid before
createProcess(S, name, owner) ==
  [S EXCEPT !.nextPid = @ + 1,
            !.processes = Append(@, [pid |-> S.nextPid, name |-> name, owner |-> owner,
                                      status |-> "running"])]

\* the Kernel constructor, on the item found in localStorage
newKernel(item, clock, up) ==
  createProcess([root |-> SeedRoot, currentUser |-> NOUSER, processes |-> <<>>,
                 nextPid |-> 100, logs |-> loadLogs(item), stored |-> item,
                 now |-> clock, storageUp |-> up],
                n_init, s_system)

\* the state with a logout entry written for the active session, if any
withLogoutEntry(S) ==
  IF S.currentUser # NOUSER
    THEN log(S, S.currentUser.username, "logout", <<"{", "}">>, "ALLOWED", UNDEF)
    ELSE S

\* a faulty login that first logs the active session out, with its entry
loginLogsOutFirst(S, username, password) ==
  IF username = s_admin /\ password = s_admin123
    THEN [val |-> TRUE,
          S |-> log([withLogoutEntry(S) EXCEPT !.currentUser = [username |-> s_admin, role |-> "root"]],
                    s_system, "login", stringifyLogin(username), "ALLOWED", m_AuthSuccessful)]
  ELSE IF username = s_user /\ password = s_user123
    THEN [val |-> TRUE,
          S |-> log([withLogoutEntry(S) EXCEPT !.currentUser = [username |-> s_user, role |-> "user"]],
                    s_system, "login", stringifyLogin(username), "ALLOWED", m_AuthSuccessful)]
  ELSE [val |-> FALSE,
        S |-> log(S, s_system, "login", stringifyLogin(username), "DENIED", m_InvalidCredentials)]

\* a faulty login that knows the administrator's account only
loginAdminOnly(S, username, password) ==
  IF username = s_admin /\ password = s_admin123
    THEN [val |-> TRUE,
          S |-> log([S EXCEPT !.currentUser = [username |-> s_admin, role |-> "root"]],
                    s_system, "login", stringifyLogin(username), "ALLOWED", m_AuthSuccessful)]
  ELSE [val |-> FALSE,
        S |-> log(S, s_system, "login", stringifyLogin(username), "DENIED", m_InvalidCredentials)]

\* a faulty login that ends the session when the credentials are wrong
loginDropsSession(S, username, password) ==
  IF username = s_admin /\ password = s_admin123
    THEN [val |-> TRUE,
          S |-> log([S EXCEPT !.currentUser = [username |-> s_admin, role |-> "root"]],
                    s_system, "login", stringifyLogin(username), "ALLOWED", m_AuthSuccessful)]
  ELSE IF username = s_user /\ password = s_user123
    THEN [val |-> TRUE,
          S |-> log([S EXCEPT !.currentUser = [username |-> s_user, role |-> "user"]],
                    s_system, "login", stringifyLogin(username), "ALLOWED", m_AuthSuccessful)]
  ELSE [val |-> FALSE,
        S |-> log([S EXCEPT !.currentUser = NOUSER],
                  s_system, "login", stringifyLogin(username), "DENIED", m_InvalidCredentials)]

\* login(username, password): the value returned and the state afterwards
login(S, username, password) ==
  IF username = s_admin /\ password = s_admin123
    THEN [val |-> TRUE,
          S |-> log([S EXCEPT !.currentUser = [username |-> s_admin, role |-> "root"]],
                    s_system, "login", stringifyLogin(username), "ALLOWED", m_AuthSuccessful)]
  ELSE IF username = s_user /\ password = s_user123
    THEN [val |-> TRUE,
          S |-> log([S EXCEPT !.currentUser = [username |-> s_user, role |-> "user"]],
                    s_system, "login", stringifyLogin(username), "ALLOWED", m_AuthSuccessful)]
  ELSE [val |-> FALSE,
        S |-> log(S, s_system, "login", stringifyLogin(username), "DENIED", m_InvalidCredentials)]

\* a faulty logout that writes its entry and keeps the session
logoutKeepsSession(S) ==
  IF S.currentUser # NOUSER
    THEN log(S, S.currentUser.username, "logout", <<"{", "}">>, "ALLOWED", UNDEF)
    ELSE S

\* logout()
logout(S) ==
  IF S.currentUser # NOUSER
    THEN [log(S, S.currentUser.username, "logout", <<"{", "}">>, "ALLOWED", UNDEF)
            EXCEPT !.currentUser = NOUSER]
    ELSE S

\* a faulty isAdmin that is true of every session
isAdminAnySession(S) == S.currentUser # NOUSER

\* isAdmin()
isAdmin(S) == S.currentUser # NOUSER /\ S.currentUser.role = "root"

WhiteSpace == {" ", "\t", "\n", "\r", "\f"}

RECURSIVE trimStart(_)
trimStart(s) == IF s # <<>> /\ Head(s) \in WhiteSpace THEN trimStart(Tail(s)) ELSE s

\* the longest prefix of s made of digits
RECURSIVE digitPrefix(_)
digitPrefix(s) ==
  IF s # <<>> /\ Head(s) \in Digits THEN <<Head(s)>> \o digitPrefix(Tail(s)) ELSE <<>>

HexDigits == Digits \cup {"a", "b", "c", "d", "e", "f", "A", "B", "C", "D", "E", "F"}

HexDigitVal(c) ==
  CASE c \in Digits -> DigitVal(c)
    [] c \in {"a", "A"} -> 10 [] c \in {"b", "B"} -> 11 [] c \in {"c", "C"} -> 12
    [] c \in {"d", "D"} -> 13 [] c \in {"e", "E"} -> 14 [] c \in {"f", "F"} -> 15

RECURSIVE hexPrefix(_)
hexPrefix(s) ==
  IF s # <<>> /\ Head(s) \in HexDigits THEN <<Head(s)>> \o hexPrefix(Tail(s)) ELSE <<>>

RECURSIVE HexVal(_)
HexVal(s) ==
  IF s = <<>> THEN 0 ELSE 16 * HexVal(SubSeq(s, 1, Len(s) - 1)) + HexDigitVal(s[Len(s)])

\* the number read from the digits d (hexadecimal when hex), negated when neg;
\* no number (NaN) when there is no digit
numberOf(d, hex, neg) ==
  IF d = <<>> THEN [nan |-> TRUE, val |-> 0]
  ELSE IF hex THEN [nan |-> FALSE, val |-> IF neg THEN 0 - HexVal(d) ELSE HexVal(d)]
  ELSE [nan |-> FALSE, val |-> IF neg THEN 0 - DecVal(d) ELSE DecVal(d)]

\* the text u after the sign: hexadecimal digits after 0x or 0X, decimal
\* digits otherwise
parseDigits(u, neg) ==
  IF Len(u) >= 2 /\ u[1] = "0" /\ u[2] \in {"x", "X"}
    THEN numberOf(hexPrefix(SubSeq(u, 3, Len(u))), TRUE, neg)
    ELSE numberOf(digitPrefix(u), FALSE, neg)

\* the text t after the leading white space: one sign is skipped
parseSigned(t) ==
  IF t # <<>> /\ Head(t) \in {"-", "+"} THEN parseDigits(Tail(t), Head(t) = "-")
  ELSE parseDigits(t, FALSE)

\* parseInt(x): undefined reads as the text "undefined"
parseInt(x) == parseSigned(trimStart(IF IsString(x) THEN x ELSE s_undefined))

\* the first index whose pid is the number n, 0 for -1 (NaN equals nothing)
firstWithPid(ps, n) ==
  IF n.nan \/ \A i \in 1..Len(ps) : ps[i].pid # n.val THEN 0
  ELSE CHOOSE i \in 1..Len(ps) : ps[i].pid = n.val /\ \A j \in 1..(i - 1) : ps[j].pid # n.val

\* processes.findIndex(p => p.pid === parseInt(pid))
findIndex(ps, pid) == firstWithPid(ps, parseInt(pid))

\* processes.splice(idx, 1)
splice(ps, idx) == SubSeq(ps, 1, idx - 1) \o SubSeq(ps, idx + 1, Len(ps))

\* a faulty killProcess that removes the oldest process before it throws
killAtDropsOldest(S, idx) ==
  IF idx = 0
    THEN [ok |-> FALSE, err |-> m_ProcessNotFound,
          S |-> [S EXCEPT !.processes = IF @ = <<>> THEN <<>> ELSE Tail(@)]]
  ELSE [ok |-> TRUE, err |-> <<>>, S |-> [S EXCEPT !.processes = splice(@, idx)]]

\* a faulty killProcess that reports success when no process has the pid
killAtIgnoresMissing(S, idx) ==
  IF idx = 0 THEN [ok |-> TRUE, err |-> <<>>, S |-> S]
  ELSE [ok |-> TRUE, err |-> <<>>, S |-> [S EXCEPT !.processes = splice(@, idx)]]

\* killProcess after idx = findIndex(...)
killAt(S, idx) ==
  IF idx = 0 THEN [ok |-> FALSE, err |-> m_ProcessNotFound, S |-> S]
  ELSE [ok |-> TRUE, err |-> <<>>, S |-> [S EXCEPT !.processes = splice(@, idx)]]

\* killProcess(pid)
killProcess(S, pid) == killAt(S, findIndex(S.processes, pid))

\* args[i] of the rest parameter, undefined past its end (i counts from 0)
argAt(args, i) == IF i + 1 <= Len(args) THEN args[i + 1] ELSE UNDEF

\* what a case of the switch yields from a handler's outcome h that leaves the
\* tree r: the result or the error, and the state
withRoot(S, h, r) == [ok |-> h.ok, err |-> h.err, S |-> [S EXCEPT !.root = r], val |-> h.ok]

fromKill(k) == [ok |-> k.ok, err |-> k.err, S |-> k.S, val |-> k.ok]

fromExists(S, e) ==
  IF ~e.ok THEN [ok |-> FALSE, err |-> e.err, S |-> S, val |-> UNDEF]
  ELSE IF ~e.val THEN [ok |-> FALSE, err |-> m_FileNotFound, S |-> S, val |-> UNDEF]
  ELSE [ok |-> TRUE, err |-> <<>>, S |-> S, val |-> m_FileDescriptor]

fromValue(S, f) == [ok |-> f.ok, err |-> f.err, S |-> S, val |-> f.val]

fromWrite(S, w) == withRoot(S, w, w.root)

\* the switch of syscall: what the handler returns or throws, and the state it
\* leaves, before anything is logged
dispatch(S, name, a0, a1) ==
  CASE name = "get_info" ->
         [ok |-> TRUE, err |-> <<>>, S |-> S,
          val |-> [os |-> m_OsName, user |-> S.currentUser]]
    [] name = "create_process" ->
         IF ~isAdmin(S) THEN [ok |-> FALSE, err |-> m_RequiresRoot, S |-> S, val |-> UNDEF]
         ELSE [ok |-> TRUE, err |-> <<>>,
               S |-> createProcess(S, a0, S.currentUser.username), val |-> S.nextPid]
    [] name = "kill_process" ->
         IF ~isAdmin(S) THEN [ok |-> FALSE, err |-> m_RequiresRoot, S |-> S, val |-> UNDEF]
         ELSE fromKill(killProcess(S, a0))
    [] name = "open_file" ->
         fromExists(S, fileExists(S.root, a0))
    [] name = "read_file" ->
         IF ~IsString(a0)
           THEN [ok |-> FALSE, err |-> TypeErrorMsg(a0, k_includes), S |-> S, val |-> UNDEF]
         ELSE IF includes(a0, s_slash_shadow)
           THEN [ok |-> FALSE, err |-> m_PermissionDenied, S |-> S, val |-> UNDEF]
         ELSE fromValue(S, readFile(S.root, a0))
    [] name = "write_file" ->
         IF ~isAdmin(S) /\ ~IsString(a0)
           THEN [ok |-> FALSE, err |-> TypeErrorMsg(a0, k_startsWith), S |-> S, val |-> UNDEF]
         ELSE IF ~isAdmin(S) /\ startsWith(a0, s_slash_etc)
           THEN [ok |-> FALSE, err |-> m_EtcReadOnly, S |-> S, val |-> UNDEF]
         ELSE fromWrite(S, writeFile(S.root, a0, a1))
    [] name = "create_file" ->
         fromWrite(S, createFile(S.root, a0, a1))
    [] name = "list_dir" ->
         fromValue(S, listDir(S.root, a0))
    [] OTHER ->
         [ok |-> FALSE, err |-> m_UnknownSyscall, S |-> S, val |-> UNDEF]

\* a faulty try block that looks the name up before the checkAuth test
tryBlockNameFirst(S, name, args) ==
  IF name \notin {"get_info", "create_process", "kill_process", "open_file", "read_file",
                  "write_file", "create_file", "list_dir"}
    THEN [ok |-> FALSE, err |-> m_UnknownSyscall, S |-> S, val |-> UNDEF]
  ELSE IF S.currentUser = NOUSER
    THEN [ok |-> FALSE, err |-> m_NotLoggedIn, S |-> S, val |-> UNDEF]
  ELSE dispatch(S, name, argAt(args, 0), argAt(args, 1))

\* a faulty try block without the checkAuth test
tryBlockNoAuth(S, name, args) == dispatch(S, name, argAt(args, 0), argAt(args, 1))

\* the try block of syscall: checkAuth(), then the switch
tryBlock(S, name, args) ==
  IF S.currentUser = NOUSER
    THEN [ok |-> FALSE, err |-> m_NotLoggedIn, S |-> S, val |-> UNDEF]
    ELSE dispatch(S, name, argAt(args, 0), argAt(args, 1))

\* a faulty classification that logs every failure as ERROR
logStatusAlwaysError(message) == "ERROR"

\* the status the catch block logs
logStatus(message) == IF includes(message, s_Permission) THEN "DENIED" ELSE "ERROR"

\* the user the catch block logs
catchUser(S) == IF S.currentUser # NOUSER THEN S.currentUser.username ELSE s_anonymous

\* a faulty success path that logs the entry under the user "system"
logOutcomeAsSystem(S, name, args, t) ==
  IF t.ok
    THEN [ok |-> TRUE, err |-> <<>>, val |-> t.val,
          S |-> log(t.S, s_system, name, stringifyArgs(args), "ALLOWED", m_Success)]
    ELSE [ok |-> FALSE, err |-> t.err, val |-> UNDEF,
          S |-> log(t.S, catchUser(t.S), name, stringifyArgs(args),
                    logStatus(t.err), t.err)]

\* a faulty catch block that throws the error again without logging it
logOutcomeSilentCatch(S, name, args, t) ==
  IF t.ok
    THEN [ok |-> TRUE, err |-> <<>>, val |-> t.val,
          S |-> log(t.S, S.currentUser.username, name, stringifyArgs(args),
                    "ALLOWED", m_Success)]
    ELSE [ok |-> FALSE, err |-> t.err, val |-> UNDEF, S |-> t.S]

\* after the try block, whose outcome is t: the log call of the success path,
\* or the catch block, which logs and throws the error again
logOutcome(S, name, args, t) ==
  IF t.ok
    THEN [ok |-> TRUE, err |-> <<>>, val |-> t.val,
          S |-> log(t.S, S.currentUser.username, name, stringifyArgs(args),
                    "ALLOWED", m_Success)]
    ELSE [ok |-> FALSE, err |-> t.err, val |-> UNDEF,
          S |-> log(t.S, catchUser(t.S), name, stringifyArgs(args),
                    logStatus(t.err), t.err)]

\* syscall(name, ...args)
syscall(S, name, args) == logOutcome(S, name, args, tryBlock(S, name, args))

(***************************************************************************)
(* The page: operations arrive one at a time (a form submit, a button, a   *)
(* timer callback), each running to completion.                            *)
(***************************************************************************)
MaxLog == 1
MaxPid == 101
MaxClock == 1

s_sh == <<"s","h">>
s_x == <<"x">>
s_y == <<"y">>
s_100 == <<"1","0","0">>
s_101 == <<"1","0","1">>
s_wrong == <<"w","r","o","n","g">>
p_etc_passwd == <<"/","e","t","c","/","p","a","s","s","w","d">>
p_shadow == <<"/","s","h","a","d","o","w">>

\* the credentials typed into the login form
Logins == {<<s_admin, s_admin123>>, <<s_user, s_user123>>, <<s_admin, s_wrong>>}

\* the system calls submitted
Calls ==
  { <<"get_info", <<>>>>,
    <<"create_process", <<s_sh>>>>,
    <<"kill_process", <<s_100>>>>,
    <<"kill_process", <<s_101>>>>,
    <<"read_file", <<p_shadow>>>>,
    <<"write_file", <<p_etc_passwd, s_x>>>>,
    <<"create_file", <<p_shadow, s_x>>>>,
    <<"reboot", <<>>>> }

\* what the last operation was, what it was given, and whether it returned
\* (ok; for login, the value returned) or threw (its error message)
Last(op, name, args, ok, err) ==
  [op |-> op, name |-> name, args |-> args, ok |-> ok, err |-> err]

Init ==
  /\ \E K \in {newKernel(MISSING, 0, TRUE)} :
         /\ root = K.root
         /\ currentUser = K.currentUser
         /\ processes = K.processes
         /\ nextPid = K.nextPid
         /\ logs = K.logs
         /\ stored = K.stored
         /\ now = K.now
         /\ storageUp = K.storageUp
  /\ last = Last("init", "", <<>>, TRUE, <<>>)

\* the variables take the fields of S
Becomes(S) ==
  /\ root' = S.root
  /\ currentUser' = S.currentUser
  /\ processes' = S.processes
  /\ nextPid' = S.nextPid
  /\ logs' = S.logs
  /\ stored' = S.stored
  /\ now' = S.now
  /\ storageUp' = S.storageUp

Login(username, password) ==
  /\ Len(logs) < MaxLog
  /\ \E o \in {login(State, username, password)} :
         /\ Becomes(o.S)
         /\ last' = Last("login", "login", <<username, password>>, o.val, <<>>)

Logout ==
  /\ Len(logs) < MaxLog
  /\ Becomes(logout(State))
  /\ last' = Last("logout", "logout", <<>>, TRUE, <<>>)

Syscall(name, args) ==
  /\ Len(logs) < MaxLog
  /\ \E o \in {syscall(State, name, args)} :
         /\ o.S.nextPid <= MaxPid
         /\ Becomes(o.S)
         /\ last' = Last("syscall", name, args, o.ok, o.err)

ClearLogs ==
  /\ Becomes(clearLogs(State))
  /\ last' = Last("clearLogs", "clearLogs", <<>>, TRUE, <<>>)

Next ==
  \/ \E c \in Logins : Login(c[1], c[2])
  \/ Logout
  \/ \E c \in Calls : Syscall(c[1], c[2])
  \/ ClearLogs

Spec == Init /\ [][Next]_vars

(***************************************************************************)
(* The page with its environment: the clock advances, localStorage starts  *)
(* and stops throwing, and the page is loaded again (a new Kernel).        *)
(***************************************************************************)
\* time passes between two operations
Tick ==
  /\ now < MaxClock
  /\ now' = now + 1
  /\ last' = Last("tick", "", <<>>, TRUE, <<>>)
  /\ UNCHANGED <<root, currentUser, processes, nextPid, logs, stored, storageUp>>

\* setItem starts throwing (quota exceeded, storage disabled)
StorageFails ==
  /\ storageUp
  /\ storageUp' = FALSE
  /\ last' = Last("storageFails", "", <<>>, TRUE, <<>>)
  /\ UNCHANGED <<root, currentUser, processes, nextPid, logs, stored, now>>

StorageRecovers ==
  /\ ~storageUp
  /\ storageUp' = TRUE
  /\ last' = Last("storageRecovers", "", <<>>, TRUE, <<>>)
  /\ UNCHANGED <<root, currentUser, processes, nextPid, logs, stored, now>>

\* the page is loaded again: new UIController(), new Kernel()
Reload ==
  /\ Becomes(newKernel(stored, now, storageUp))
  /\ last' = Last("reload", "", <<>>, TRUE, <<>>)

StorageCalls == { <<"get_info", <<>>>>, <<"reboot", <<>>>> }

NextStorage ==
  \/ Login(s_admin, s_admin123)
  \/ Logout
  \/ \E c \in StorageCalls : Syscall(c[1], c[2])
  \/ ClearLogs
  \/ StorageFails
  \/ StorageRecovers
  \/ Reload

SpecStorage == Init /\ [][NextStorage]_vars

(***************************************************************************)
(* The file system alone: its methods called one after the other.          *)
(***************************************************************************)
p_root == <<"/">>
p_etc == <<"/","e","t","c">>
p_guest_f == <<"/","h","o","m","e","/","g","u","e","s","t","/","f">>
p_guest_f_g == <<"/","h","o","m","e","/","g","u","e","s","t","/","f","/","g">>
p_etc_7 == <<"/","e","t","c","/","7">>
p_etc_toString == <<"/","e","t","c","/","t","o","S","t","r","i","n","g">>

FsPaths == {p_root, p_etc, p_etc_passwd, p_etc_7, p_guest_f, p_guest_f_g, p_etc_toString,
            UNDEF}

FsCreate(path, content) ==
  /\ \E o \in {createFile(root, path, content)} :
         /\ root' = o.root
         /\ last' = Last("createFile", "createFile", <<path, content>>, o.ok, o.err)
  /\ UNCHANGED <<currentUser, processes, nextPid, logs, stored, now, storageUp>>

FsWrite(path, content) ==
  /\ \E o \in {writeFile(root, path, content)} :
         /\ root' = o.root
         /\ last' = Last("writeFile", "writeFile", <<path, content>>, o.ok, o.err)
  /\ UNCHANGED <<currentUser, processes, nextPid, logs, stored, now, storageUp>>

FsDelete(path) ==
  /\ \E o \in {deleteFile(root, path)} :
         /\ root' = o.root
         /\ last' = Last("deleteFile", "deleteFile", <<path>>, o.ok, o.err)
  /\ UNCHANGED <<currentUser, processes, nextPid, logs, stored, now, storageUp>>

NextFS ==
  \/ \E p \in FsPaths : FsCreate(p, s_x)
  \/ \E p \in FsPaths, c \in {s_y, UNDEF} : FsWrite(p, c)
  \/ \E p \in FsPaths : FsDelete(p)

SpecFS == Init /\ [][NextFS]_vars

(***************************************************************************)
(* The process table: processes are created and killed under either        *)
(* account, and the log is cleared to make room.                            *)
(***************************************************************************)
MaxNextPid == 103

s_102 == <<"1","0","2">>

ProcCalls ==
  { <<"create_process", <<s_sh>>>>,
    <<"kill_process", <<s_100>>>>,
    <<"kill_process", <<s_101>>>>,
    <<"kill_process", <<s_102>>>> }

ProcCall(name, args) ==
  /\ Len(logs) < MaxLog
  /\ \E o \in {syscall(State, name, args)} :
         /\ o.S.nextPid <= MaxNextPid
         /\ Becomes(o.S)
         /\ last' = Last("syscall", name, args, o.ok, o.err)

NextProc ==
  \/ \E c \in {<<s_admin, s_admin123>>, <<s_user, s_user123>>} : Login(c[1], c[2])
  \/ \E c \in ProcCalls : ProcCall(c[1], c[2])
  \/ ClearLogs

SpecProc == Init /\ [][NextProc]_vars

(***************************************************************************)
(* The audit log over several entries, with the clock advancing between    *)
(* some operations and standing still between others.                      *)
(***************************************************************************)
MaxEntries == 3

LogCalls == { <<"get_info", <<>>>>, <<"reboot", <<>>>> }

LogLogin(username, password) ==
  /\ Len(logs) < MaxEntries
  /\ \E o \in {login(State, username, password)} :
         /\ Becomes(o.S)
         /\ last' = Last("login", "login", <<username, password>>, o.val, <<>>)

LogLogout ==
  /\ Len(logs) < MaxEntries
  /\ Becomes(logout(State))
  /\ last' = Last("logout", "logout", <<>>, TRUE, <<>>)

LogCall(name, args) ==
  /\ Len(logs) < MaxEntries
  /\ \E o \in {syscall(State, name, args)} :
         /\ Becomes(o.S)
         /\ last' = Last("syscall", name, args, o.ok, o.err)

NextLog ==
  \/ LogLogin(s_admin, s_admin123)
  \/ LogLogout
  \/ \E c \in LogCalls : LogCall(c[1], c[2])
  \/ ClearLogs
  \/ Tick

SpecLog == Init /\ [][NextLog]_vars

(***************************************************************************)
(* The files under the dispatcher: either account writes, creates, reads   *)
(* and lists, with paths spelled with and without the leading separator.   *)
(***************************************************************************)
p_rel_etc_passwd == <<"e","t","c","/","p","a","s","s","w","d">>
p_rel_shadow == <<"s","h","a","d","o","w">>

FileCalls ==
  { <<"write_file", <<p_etc_passwd, s_y>>>>,
    <<"write_file", <<p_rel_etc_passwd, s_x>>>>,
    <<"create_file", <<p_shadow, s_x>>>>,
    <<"read_file", <<p_shadow>>>>,
    <<"read_file", <<p_rel_shadow>>>>,
    <<"list_dir", <<p_etc>>>> }

NextFiles ==
  \/ \E c \in {<<s_admin, s_admin123>>, <<s_user, s_user123>>} : Login(c[1], c[2])
  \/ Logout
  \/ \E c \in FileCalls : Syscall(c[1], c[2])
  \/ ClearLogs

SpecFiles == Init /\ [][NextFiles]_vars

(***************************************************************************)
(* Arguments the properties are checked on in every reachable state, over  *)
(* and above the calls the specifications take.                            *)
(***************************************************************************)
s_shadow == <<"s","h","a","d","o","w">>
s_empty == <<>>
p_dbl_etc_passwd == <<"/","/","e","t","c","/","p","a","s","s","w","d">>
p_etc_passwd_slash == <<"/","e","t","c","/","p","a","s","s","w","d","/">>
p_etc_nope == <<"/","e","t","c","/","n","o","p","e">>
p_etc_shadow == <<"/","e","t","c","/","s","h","a","d","o","w">>
p_guest_myshadow == <<"/","h","o","m","e","/","g","u","e","s","t","/","m","y","s","h","a","d","o","w">>
p_secret == <<"/","h","o","m","e","/","a","d","m","i","n","/","s","e","c","r","e","t",".","t","x","t">>
p_nope == <<"/","n","o","p","e">>
s_100a == <<"1","0","0","a">>
s_0x64 == <<"0","x","6","4">>
s_sp100 == <<" ","1","0","0">>

ProbeNames ==
  {"get_info", "create_process", "kill_process", "open_file", "read_file", "write_file",
   "create_file", "list_dir", "reboot"}

ProbePaths ==
  {p_root, s_empty, p_etc, p_etc_passwd, p_rel_etc_passwd, p_dbl_etc_passwd, p_etc_passwd_slash,
   p_etc_nope, p_etc_toString, p_shadow, p_rel_shadow, p_etc_shadow,
   p_guest_myshadow, p_secret, p_guest_f, UNDEF}

ProbePids == {s_100, s_101, s_100a, s_0x64, s_sp100, s_sh, UNDEF}

\* argument lists of every shape: none, a path, a path and a content, a pid
ProbeArgs ==
  {<<>>} \cup {<<p>> : p \in ProbePaths} \cup {<<n>> : n \in ProbePids}
         \cup {<<p_etc_passwd, s_x>>, <<p_guest_f, s_x>>, <<p_rel_shadow, s_empty>>}

\* each registered name with the argument lists of its form, and a name that
\* is not registered
ProbeCalls ==
  {<<"get_info", <<>>>>, <<"reboot", <<>>>>, <<"reboot", <<p_etc_passwd>>>>}
    \cup {<<n, <<a>>>> : n \in {"create_process", "kill_process"}, a \in ProbePids}
    \cup {<<n, <<p>>>> : n \in {"open_file", "read_file", "list_dir", "create_file", "write_file"},
                         p \in ProbePaths}
    \cup {<<n, <<p, s_x>>>> : n \in {"create_file", "write_file"}, p \in ProbePaths}
    \cup {<<n, <<>>>> : n \in ProbeNames}

ROOTUSER == [username |-> s_admin, role |-> "root"]
STDUSER == [username |-> s_user, role |-> "user"]

\* the call added exactly one entry, in front of the log as it was
OneEntryAdded(before, after) ==
  Len(after.logs) = Len(before.logs) + 1 /\ Tail(after.logs) = before.logs

\* session, file tree, process table and next pid are as they were
KernelUnchanged(before, after) ==
  /\ after.currentUser = before.currentUser
  /\ after.root = before.root
  /\ after.processes = before.processes
  /\ after.nextPid = before.nextPid

(***************************************************************************)
(* C1.  With no active session, syscall(name, args) fails with 'Not logged *)
(* in' for every name and every argument list, adds exactly one audit      *)
(* entry, whose user is "anonymous" and whose status is ERROR, and leaves  *)
(* the session, the file tree and the process table unchanged.             *)
(***************************************************************************)
C1_UnauthenticatedSyscall ==
  currentUser = NOUSER =>
    \A name \in ProbeNames, args \in ProbeArgs :
      \A o \in {syscall(State, name, args)} :
        /\ ~o.ok
        /\ o.err = m_NotLoggedIn
        /\ OneEntryAdded(State, o.S)
        /\ o.S.logs[1].user = s_anonymous
        /\ o.S.logs[1].status = "ERROR"
        /\ o.S.logs[1].syscall = name
        /\ KernelUnchanged(State, o.S)

C1_Witness ==
  /\ last.op = "syscall"
  /\ last.name = "create_file"
  /\ last.err = m_NotLoggedIn
  /\ currentUser = NOUSER
  /\ Len(logs) = 1
  /\ logs[1].user = s_anonymous
  /\ logs[1].status = "ERROR"
  /\ root = SeedRoot

(***************************************************************************)
(* C2.  Every call of syscall, whether it returns a result or throws,      *)
(* makes the audit log exactly one entry longer.                           *)
(***************************************************************************)
C2_OneEntryPerSyscall ==
  \A c \in ProbeCalls :
    \A o \in {syscall(State, c[1], c[2])} :
      Len(o.S.logs) = Len(logs) + 1

C2_Witness ==
  /\ last.op = "syscall"
  /\ ~last.ok
  /\ last.err = m_AlreadyExists
  /\ Len(logs) = 1
  /\ logs[1].message = m_AlreadyExists

(***************************************************************************)
(* C3.  AuditLogger.clearLogs empties the in-memory log and changes        *)
(* nothing else of the kernel (session, file tree, process table, nextPid);*)
(* the persisted log is emptied as well when the write to storage          *)
(* succeeds, and keeps the text it had when the write fails, the failure   *)
(* being caught inside saveLogs.                                           *)
(***************************************************************************)
C3_ClearLogs ==
  \A o \in {clearLogs(State)} :
    /\ o.logs = <<>>
    /\ KernelUnchanged(State, o)
    /\ storageUp => o.stored = stringifyLogs(<<>>) /\ loadLogs(o.stored) = <<>>
    /\ ~storageUp => o.stored = stored
    /\ [o EXCEPT !.logs = logs, !.stored = stored] = State

C3_Witness ==
  /\ last.op = "clearLogs"
  /\ logs = <<>>
  /\ storageUp
  /\ stored = stringifyLogs(<<>>)
  /\ currentUser = ROOTUSER

\* C3 as it is stated: after clearLogs the in-memory log and the persisted
\* log are both empty, whatever the state of the storage
C3_AsStated ==
  last.op = "clearLogs" => logs = <<>> /\ loadLogs(stored) = <<>>

(***************************************************************************)
(* C4.  From any reachable state, login with admin/admin123 returns true   *)
(* and leaves the session {admin, root}; login with user/user123 returns   *)
(* true and leaves the session {user, user}; either adds exactly one audit *)
(* entry, with user "system" and status ALLOWED.                           *)
(***************************************************************************)
LoginGranted(o, session) ==
  /\ o.val = TRUE
  /\ o.S.currentUser = session
  /\ OneEntryAdded(State, o.S)
  /\ o.S.logs[1].user = s_system
  /\ o.S.logs[1].status = "ALLOWED"

C4_ValidLogin ==
  /\ LoginGranted(login(State, s_admin, s_admin123), ROOTUSER)
  /\ LoginGranted(login(State, s_user, s_user123), STDUSER)

C4_Witness ==
  /\ last.op = "login"
  /\ last.ok
  /\ last.args = <<s_user, s_user123>>
  /\ currentUser = STDUSER
  /\ Len(logs) = 1
  /\ logs[1].user = s_system
  /\ logs[1].status = "ALLOWED"

(***************************************************************************)
(* C5.  From any reachable state, login with a pair other than the two     *)
(* valid pairs returns false, adds exactly one audit entry, with user      *)
(* "system" and status DENIED, and leaves the session as it was: none when *)
(* none was active, and the active one still in place otherwise.           *)
(***************************************************************************)
s_Admin == <<"A","d","m","i","n">>

BadLogins ==
  {<<s_admin, s_wrong>>, <<s_admin, s_user123>>, <<s_user, s_admin123>>,
   <<s_wrong, s_admin123>>, <<s_Admin, s_admin123>>, <<s_empty, s_empty>>,
   <<s_admin, UNDEF>>, <<UNDEF, UNDEF>>}

C5_FailedLogin ==
  \A c \in BadLogins :
    \A o \in {login(State, c[1], c[2])} :
      /\ o.val = FALSE
      /\ o.S.currentUser = currentUser
      /\ KernelUnchanged(State, o.S)
      /\ OneEntryAdded(State, o.S)
      /\ o.S.logs[1].user = s_system
      /\ o.S.logs[1].status = "DENIED"

C5_Witness ==
  /\ last.op = "login"
  /\ ~last.ok
  /\ last.args = <<s_admin, s_wrong>>
  /\ currentUser = ROOTUSER
  /\ Len(logs) = 1
  /\ logs[1].status = "DENIED"

\* C5 as it is stated: a login with a wrong pair leaves no session active,
\* also when one was active before
C5_AsStated ==
  \A c \in BadLogins :
    \A o \in {login(State, c[1], c[2])} :
      /\ o.val = FALSE
      /\ o.S.currentUser = NOUSER
      /\ OneEntryAdded(State, o.S)
      /\ o.S.logs[1].status = "DENIED"

(***************************************************************************)
(* C6.  Under a non-root session every create_process and every            *)
(* kill_process call, whatever its argument, fails with the                *)
(* permission-denied error, adds an audit entry of status DENIED, and      *)
(* leaves the process table and nextPid unchanged.                         *)
(***************************************************************************)
C6_ProcessCallsNeedRoot ==
  currentUser = STDUSER =>
    \A name \in {"create_process", "kill_process"}, args \in {<<>>} \cup {<<n>> : n \in ProbePids} :
      \A o \in {syscall(State, name, args)} :
        /\ ~o.ok
        /\ o.err = m_RequiresRoot
        /\ includes(o.err, m_PermissionDenied)
        /\ OneEntryAdded(State, o.S)
        /\ o.S.logs[1].status = "DENIED"
        /\ o.S.logs[1].user = s_user
        /\ o.S.processes = processes
        /\ o.S.nextPid = nextPid

C6_Witness ==
  /\ last.op = "syscall"
  /\ last.name = "kill_process"
  /\ last.args = <<s_101>>
  /\ ~last.ok
  /\ last.err = m_RequiresRoot
  /\ currentUser = STDUSER
  /\ logs[1].status = "DENIED"
  /\ nextPid = 101

(***************************************************************************)
(* C7.  For every session role, root included, and every path that holds   *)
(* the text "shadow" anywhere, read_file fails with the permission-denied  *)
(* error, is logged as DENIED, and returns no file content.                *)
(***************************************************************************)
C7_ShadowNeverRead ==
  currentUser # NOUSER =>
    \A p \in {q \in ProbePaths : IsString(q) /\ includes(q, s_shadow)} :
      \A o \in {syscall(State, "read_file", <<p>>)} :
        /\ ~o.ok
        /\ o.err = m_PermissionDenied
        /\ o.val = UNDEF
        /\ o.S.logs[1].status = "DENIED"

(***************************************************************************)
(* C8.  write_file on a path under /etc is denied when the session is not  *)
(* root: permission-denied error, DENIED audit entry, tree unchanged.  It  *)
(* is allowed when the session is root and the path resolves to an         *)
(* existing file: the content is replaced and the audit entry is ALLOWED.  *)
(***************************************************************************)
s_etc_slash == <<"/","e","t","c","/">>

\* a path that names /etc or something below it
UnderEtc(p) == IsString(p) /\ (p = p_etc \/ startsWith(p, s_etc_slash))

\* the path resolves to an existing file of tree r
ResolvesToFile(r, p) ==
  \A n \in {resolvePath(r, p)} : n.ok /\ n.node # NULLREF /\ n.node # PROTOREF
                                      /\ typeOf(r, n.node) = "file"

C8_EtcWrite ==
  \A p \in {q \in ProbePaths : UnderEtc(q)}, c \in {s_empty, s_y} :
    \A o \in {syscall(State, "write_file", <<p, c>>)} :
      /\ currentUser = STDUSER =>
           /\ ~o.ok
           /\ o.err = m_EtcReadOnly
           /\ includes(o.err, m_PermissionDenied)
           /\ o.S.logs[1].status = "DENIED"
           /\ o.S.root = root
      /\ currentUser = ROOTUSER /\ ResolvesToFile(root, p) =>
           /\ o.ok
           /\ o.S.logs[1].status = "ALLOWED"
           /\ readFile(o.S.root, p) = [ok |-> TRUE, err |-> <<>>, val |-> c]
           /\ \A q \in DOMAIN root : q # resolvePath(root, p).node => o.S.root[q] = root[q]
           /\ DOMAIN o.S.root = DOMAIN root

C8_Witness ==
  /\ last.op = "syscall"
  /\ last.name = "write_file"
  /\ last.args = <<p_etc_passwd, s_x>>
  /\ last.ok
  /\ currentUser = ROOTUSER
  /\ root[<<n_etc, n_passwd>>].content = s_x
  /\ logs[1].status = "ALLOWED"

(***************************************************************************)
(* Paths the properties of the file system are checked on in every tree    *)
(* SpecFS reaches: the paths it takes and other spellings of them.         *)
(***************************************************************************)
FsProbePaths ==
  FsPaths \cup {s_empty, p_rel_etc_passwd, p_dbl_etc_passwd, p_etc_passwd_slash, p_etc_nope,
                p_secret, p_nope}

(***************************************************************************)
(* C9.  Round trip on the file system: for every path p and contents c and *)
(* c2, a createFile(p, c) that succeeds is followed by a readFile(p) that  *)
(* returns exactly c, and a writeFile(p, c2) that succeeds is followed by  *)
(* a readFile(p) that returns exactly c2; a write to p changes the content *)
(* of no other file.                                                       *)
(***************************************************************************)
CreateThenRead(r, p, c) ==
  \A o \in {createFile(r, p, c)} :
    o.ok => readFile(o.root, p) = [ok |-> TRUE, err |-> <<>>, val |-> c]

WriteThenRead(r, p, c2) ==
  \A o \in {writeFile(r, p, c2)} :
    o.ok =>
      /\ readFile(o.root, p) = [ok |-> TRUE, err |-> <<>>, val |-> c2]
      /\ DOMAIN o.root = DOMAIN r
      /\ \A q \in DOMAIN r : q # resolvePath(r, p).node => o.root[q] = r[q]

C9_RoundTrip ==
  \A p \in FsProbePaths :
    /\ \A c \in {s_empty, s_x, s_y} : CreateThenRead(root, p, c)
    /\ \A c2 \in {s_empty, s_x, UNDEF} : WriteThenRead(root, p, c2)

C9_Witness ==
  /\ last.op = "writeFile"
  /\ last.ok
  /\ last.args = <<p_guest_f, s_y>>
  /\ readFile(root, p_guest_f) = [ok |-> TRUE, err |-> <<>>, val |-> s_y]
  /\ readFile(root, p_etc_7) = [ok |-> TRUE, err |-> <<>>, val |-> s_x]

(***************************************************************************)
(* C10.  createFile on a path whose name is already in its parent          *)
(* directory, as a file or as a directory, fails with 'File already        *)
(* exists' and leaves the whole tree, the content of the existing node     *)
(* included, unchanged.                                                    *)
(***************************************************************************)
\* the parts of the path lead to a node of the tree below the root
NamesExistingNode(r, p) ==
  IsString(p) /\ pathParts(p) # <<>> /\ pathParts(p) \in DOMAIN r

C10_CreateExisting ==
  \A p \in {q \in FsProbePaths : NamesExistingNode(root, q)}, c \in {UNDEF, s_x} :
    createFile(root, p, c) = [ok |-> FALSE, err |-> m_AlreadyExists, root |-> root]

C10_Witness ==
  /\ last.op = "createFile"
  /\ ~last.ok
  /\ last.err = m_AlreadyExists
  /\ last.args = <<p_guest_f, s_x>>
  /\ NamesExistingNode(root, p_guest_f)
  /\ readFile(root, p_guest_f) = [ok |-> TRUE, err |-> <<>>, val |-> s_y]

(***************************************************************************)
(* C11.  Under a root session, kill_process with a pid that is not in the  *)
(* process table, never issued or issued and already killed, fails with    *)
(* 'Process not found', is logged as ERROR, and leaves the process table   *)
(* and nextPid unchanged.                                                  *)
(***************************************************************************)
s_99 == <<"9","9">>
s_103 == <<"1","0","3">>

\* the decimal numerals a pid is given as
PidNumerals == {s_99, s_100, s_101, s_102, s_103}

\* no process of the table has the pid the numeral denotes
NotInTable(ps, numeral) == \A i \in 1..Len(ps) : ps[i].pid # DecVal(numeral)

C11_KillMissingPid ==
  currentUser = ROOTUSER =>
    \A n \in {m \in PidNumerals : NotInTable(processes, m)} :
      \A o \in {syscall(State, "kill_process", <<n>>)} :
        /\ ~o.ok
        /\ o.err = m_ProcessNotFound
        /\ OneEntryAdded(State, o.S)
        /\ o.S.logs[1].status = "ERROR"
        /\ o.S.logs[1].message = m_ProcessNotFound
        /\ o.S.processes = processes
        /\ o.S.nextPid = nextPid

\* pid 101 was issued and killed, and is asked to be killed again
C11_Witness ==
  /\ last.op = "syscall"
  /\ last.name = "kill_process"
  /\ last.args = <<s_101>>
  /\ ~last.ok
  /\ last.err = m_ProcessNotFound
  /\ currentUser = ROOTUSER
  /\ nextPid = 102
  /\ Len(processes) = 1
  /\ logs[1].status = "ERROR"

(***************************************************************************)
(* C12.  Within one Kernel lifetime pids are issued in strictly increasing *)
(* order from 100, which the 'init' process gets, and over any sequence of *)
(* create_process and kill_process calls no pid is issued twice, also      *)
(* after the process that held it was killed.                              *)
(***************************************************************************)
PidsOf(ps) == {ps[i].pid : i \in 1..Len(ps)}

\* every pid issued so far is below nextPid, and the table holds each pid
\* once, the earlier issued first
IssuedBelowNext ==
  /\ nextPid >= 101
  /\ \A i \in 1..Len(processes) : 100 <= processes[i].pid /\ processes[i].pid < nextPid
  /\ \A i, j \in 1..Len(processes) : i < j => processes[i].pid < processes[j].pid

\* a step issues at most one pid, which is nextPid, and moves nextPid past it
IssueStep ==
  /\ nextPid' >= nextPid
  /\ PidsOf(processes') \ PidsOf(processes) =
       IF nextPid' = nextPid THEN {} ELSE {nextPid}
  /\ nextPid' # nextPid => nextPid' = nextPid + 1
  /\ IssuedBelowNext'

\* create_process under the administrator returns nextPid
CreateReturnsNext ==
  currentUser = ROOTUSER =>
    \A o \in {syscall(State, "create_process", <<s_sh>>)} :
      /\ o.ok
      /\ o.val = nextPid
      /\ o.S.nextPid = nextPid + 1
      /\ o.S.processes = Append(processes, [pid |-> nextPid, name |-> s_sh,
                                            owner |-> s_admin, status |-> "running"])

C12_PidsNeverReused ==
  /\ processes = <<[pid |-> 100, name |-> n_init, owner |-> s_system, status |-> "running"]>>
  /\ nextPid = 101
  /\ [][IssueStep /\ CreateReturnsNext']_vars

\* 101 was issued and killed, and the process created after it got 102
C12_Witness ==
  /\ last.op = "syscall"
  /\ last.name = "create_process"
  /\ last.ok
  /\ nextPid = 103
  /\ PidsOf(processes) = {100, 102}

(***************************************************************************)
(* Calls that between them take every branch of the dispatcher: each name  *)
(* with arguments it accepts and with arguments it refuses.                *)
(***************************************************************************)
SampleCalls ==
  { <<"get_info", <<>>>>, <<"reboot", <<>>>>,
    <<"create_process", <<s_sh>>>>,
    <<"kill_process", <<s_100>>>>, <<"kill_process", <<s_103>>>>, <<"kill_process", <<s_sh>>>>,
    <<"open_file", <<p_etc_passwd>>>>, <<"open_file", <<p_etc_nope>>>>, <<"open_file", <<>>>>,
    <<"read_file", <<p_secret>>>>, <<"read_file", <<p_shadow>>>>, <<"read_file", <<p_etc>>>>,
    <<"read_file", <<p_etc_nope>>>>, <<"read_file", <<>>>>,
    <<"write_file", <<p_etc_passwd, s_y>>>>, <<"write_file", <<p_secret, s_y>>>>,
    <<"write_file", <<p_etc, s_y>>>>, <<"write_file", <<p_guest_f, s_y>>>>,
    <<"write_file", <<>>>>,
    <<"create_file", <<p_guest_f, s_y>>>>, <<"create_file", <<p_etc_passwd, s_y>>>>,
    <<"create_file", <<p_root, s_y>>>>, <<"create_file", <<p_guest_f_g, s_y>>>>,
    <<"list_dir", <<p_etc>>>>, <<"list_dir", <<p_etc_passwd>>>>, <<"list_dir", <<p_etc_nope>>>>,
    <<"list_dir", <<>>>> }

(***************************************************************************)
(* C13.  For every syscall that fails after the authentication check, the  *)
(* audit entry has status DENIED exactly when the failure is a permission  *)
(* refusal, by role or by path, and ERROR for every other failure; the     *)
(* message of the entry is the message of the failure, and the same        *)
(* failure is thrown to the caller.                                        *)
(***************************************************************************)
\* the refusals: by role (create_process, kill_process), by path (read_file
\* of a shadow path, write_file under /etc)
PermissionRefusals == {m_RequiresRoot, m_PermissionDenied, m_EtcReadOnly}

C13_FailureClassified ==
  currentUser # NOUSER =>
    \A c \in SampleCalls :
      \A o \in {syscall(State, c[1], c[2])} :
        ~o.ok =>
          /\ OneEntryAdded(State, o.S)
          /\ o.S.logs[1].status = IF o.err \in PermissionRefusals THEN "DENIED" ELSE "ERROR"
          /\ o.S.logs[1].message = o.err
          /\ o.err = tryBlock(State, c[1], c[2]).err
          /\ o.val = UNDEF

C13_Witness ==
  /\ last.op = "syscall"
  /\ last.name = "read_file"
  /\ ~last.ok
  /\ last.err = m_PermissionDenied
  /\ currentUser = ROOTUSER
  /\ logs[1].status = "DENIED"
  /\ logs[1].message = m_PermissionDenied

(***************************************************************************)
(* C14.  Every syscall that returns a result adds exactly one audit entry, *)
(* of status ALLOWED, whose user is the username of the session active at  *)
(* the call and whose syscall field is the name invoked; a call that       *)
(* throws adds no ALLOWED entry.                                           *)
(***************************************************************************)
C14_AllowedOnReturn ==
  \A c \in SampleCalls :
    \A o \in {syscall(State, c[1], c[2])} :
      /\ OneEntryAdded(State, o.S)
      /\ o.S.logs[1].syscall = c[1]
      /\ o.ok =>
           /\ currentUser # NOUSER
           /\ o.S.logs[1].status = "ALLOWED"
           /\ o.S.logs[1].user = currentUser.username
      /\ ~o.ok => o.S.logs[1].status # "ALLOWED"

C14_Witness ==
  /\ last.op = "syscall"
  /\ last.name = "get_info"
  /\ last.ok
  /\ currentUser = STDUSER
  /\ Len(logs) = 1
  /\ logs[1].status = "ALLOWED"
  /\ logs[1].user = s_user
  /\ logs[1].syscall = "get_info"

(***************************************************************************)
(* C15.  logout with an active session adds exactly one audit entry, of    *)
(* status ALLOWED and with the username of the outgoing session, and then  *)
(* leaves no session; logout with no session changes nothing at all.       *)
(* After logout every syscall fails as unauthenticated until a login       *)
(* succeeds.                                                               *)
(***************************************************************************)
\* in state S every call fails as unauthenticated, and still does after a
\* login that is refused
AllCallsUnauthenticated(S) ==
  /\ \A c \in SampleCalls : \A o \in {syscall(S, c[1], c[2])} : ~o.ok /\ o.err = m_NotLoggedIn
  /\ \A l \in {login(S, s_admin, s_wrong)} :
       /\ l.val = FALSE
       /\ \A o \in {syscall(l.S, "get_info", <<>>)} : ~o.ok /\ o.err = m_NotLoggedIn

C15_Logout ==
  \A o \in {logout(State)} :
    /\ currentUser # NOUSER =>
         /\ OneEntryAdded(State, o)
         /\ o.logs[1].status = "ALLOWED"
         /\ o.logs[1].user = currentUser.username
         /\ o.logs[1].syscall = "logout"
         /\ o.currentUser = NOUSER
         /\ o.root = root /\ o.processes = processes /\ o.nextPid = nextPid
         /\ AllCallsUnauthenticated(o)
    /\ currentUser = NOUSER => o = State

C15_Witness ==
  /\ last.op = "logout"
  /\ currentUser = NOUSER
  /\ Len(logs) = 1
  /\ logs[1].syscall = "logout"
  /\ logs[1].user = s_admin
  /\ logs[1].status = "ALLOWED"

(***************************************************************************)
(* C16.  The audit log is newest-first and append-only between clears:     *)
(* every login, logout and syscall puts its entry at index 0, and the      *)
(* entries that were in the log before are all still there afterwards,     *)
(* unmodified and in the same order; entries go away only by clearLogs.    *)
(***************************************************************************)
\* the step put one entry, that of the operation, in front of the log
PutInFront ==
  /\ Len(logs') = Len(logs) + 1
  /\ Tail(logs') = logs
  /\ logs'[1].syscall = last'.name

LogStep ==
  \/ last'.op \in {"login", "syscall"} /\ PutInFront
  \/ last'.op = "logout" /\ IF currentUser # NOUSER THEN PutInFront ELSE logs' = logs
  \/ last'.op = "clearLogs" /\ logs' = <<>>
  \/ last'.op \notin {"login", "syscall", "logout", "clearLogs"} /\ logs' = logs

C16_NewestFirstAppendOnly == [][LogStep]_vars

\* three entries, the login first made, then get_info, then logout on top
C16_Witness ==
  /\ Len(logs) = 3
  /\ last.op = "logout"
  /\ logs[1].syscall = "logout"
  /\ logs[2].syscall = "get_info"
  /\ logs[3].syscall = "login"
  /\ logs[1].timestamp >= logs[3].timestamp

(***************************************************************************)
(* C18.  The id of every audit entry is unique: in every reachable state   *)
(* no two entries of the audit log have the same id, entries recorded at   *)
(* the same clock reading included.                                        *)
(***************************************************************************)
C18_UniqueIds ==
  \A i, j \in 1..Len(logs) : i # j => logs[i].id # logs[j].id

(***************************************************************************)
(* C17.  listDir on a path that resolves to a directory returns exactly    *)
(* one entry per child, in the order the children were inserted, with size *)
(* the content length for a file child and the number of children for a    *)
(* directory child; on the seeded tree listDir("/home/admin") returns      *)
(* secret.txt (size 31), then notes.md.  It fails with 'Directory not      *)
(* found' if the path does not resolve and with 'Not a directory' if it    *)
(* resolves to a file.                                                     *)
(***************************************************************************)
p_home_admin == <<"/","h","o","m","e","/","a","d","m","i","n">>

ListPaths ==
  {p_root, s_empty, p_etc, p_home_admin, p_etc_passwd, p_etc_7, p_guest_f, p_guest_f_g,
   p_etc_nope, p_secret}

\* the entries are those of the children of directory d, one each, with the
\* type and the size of the child
OneEntryPerChild(r, d, val) ==
  /\ Len(val) = Len(r[d].children)
  /\ {val[i].name : i \in 1..Len(val)} = {r[d].children[i] : i \in 1..Len(r[d].children)}
  /\ \A i \in 1..Len(val) :
       \A c \in {Append(d, val[i].name)} :
         /\ val[i].type = r[c].type
         /\ val[i].size = IF r[c].type = "file" THEN Len(r[c].content) ELSE Len(r[c].children)

\* the child inserted last, by the createFile that has just returned, is the
\* last entry of its directory
NewestChildLast(r, d, val) ==
  (/\ last.op = "createFile"
   /\ last.ok
   /\ pathParts(last.args[1]) = Append(d, getName(last.args[1])))
    => val[Len(val)].name = getName(last.args[1])

C17_ListDir ==
  /\ listDir(SeedRoot, p_home_admin) =
       [ok |-> TRUE, err |-> <<>>,
        val |-> <<[name |-> n_secret_txt, type |-> "file", size |-> 31],
                  [name |-> n_notes_md, type |-> "file", size |-> Len(c_notes)]>>]
  /\ \A p \in ListPaths :
       \A o \in {listDir(root, p)}, d \in {pathParts(p)} :
         IF d \notin DOMAIN root THEN ~o.ok /\ o.err = m_DirNotFound
         ELSE IF root[d].type = "file" THEN ~o.ok /\ o.err = m_NotADirectory
         ELSE o.ok /\ OneEntryPerChild(root, d, o.val) /\ NewestChildLast(root, d, o.val)

(***************************************************************************)
(* C19.  When storage does not fail, the persisted log equals the          *)
(* in-memory log after every record and every clear, so it holds the entry *)
(* of a call when syscall returns or throws; a Kernel constructed          *)
(* afterwards starts with that same log, and with an empty log when the    *)
(* store is missing or empty.                                              *)
(***************************************************************************)
\* the stored text is that of the log of S, and a Kernel constructed on it
\* starts with that log
Persisted(S) ==
  /\ S.stored = stringifyLogs(S.logs)
  /\ loadLogs(S.stored) = S.logs
  /\ newKernel(S.stored, S.now, S.storageUp).logs = S.logs

C19_PersistedLog ==
  /\ storageUp =>
       /\ \A c \in SampleCalls : Persisted(syscall(State, c[1], c[2]).S)
       /\ \A c \in Logins : Persisted(login(State, c[1], c[2]).S)
       /\ currentUser # NOUSER => Persisted(logout(State))
       /\ Persisted(clearLogs(State))
  /\ \A item \in {MISSING, EMPTYITEM, stringifyLogs(<<>>)} :
       newKernel(item, now, storageUp).logs = <<>>
  /\ last.op = "reload" => logs = loadLogs(stored)

C19_Witness ==
  /\ last.op = "reload"
  /\ storageUp
  /\ Len(logs) = 1
  /\ logs[1].syscall = "get_info"
  /\ stored = stringifyLogs(logs)
  /\ currentUser = NOUSER

(***************************************************************************)
(* C20.  A storage failure while saving the audit log never reaches the    *)
(* caller: AuditLogger.log still puts the entry in front of the in-memory  *)
(* log, and the enclosing login, logout or syscall gives the same result   *)
(* or error and the same session, file tree and process table as it would  *)
(* with working storage.                                                   *)
(***************************************************************************)
StorageDown == [State EXCEPT !.storageUp = FALSE]
StorageWorking == [State EXCEPT !.storageUp = TRUE]

\* state d, reached with failing storage, is state w, reached with working
\* storage, but for what the storage holds
SameButStorage(d, w) ==
  /\ [d EXCEPT !.stored = w.stored, !.storageUp = w.storageUp] = w
  /\ d.stored = stored

C20_StorageFailureHidden ==
  /\ \A c \in SampleCalls :
       \A d \in {syscall(StorageDown, c[1], c[2])}, w \in {syscall(StorageWorking, c[1], c[2])} :
         /\ d.ok = w.ok /\ d.err = w.err /\ d.val = w.val
         /\ SameButStorage(d.S, w.S)
         /\ OneEntryAdded(State, d.S)
  /\ \A c \in Logins :
       \A d \in {login(StorageDown, c[1], c[2])}, w \in {login(StorageWorking, c[1], c[2])} :
         d.val = w.val /\ SameButStorage(d.S, w.S) /\ OneEntryAdded(State, d.S)
  /\ SameButStorage(logout(StorageDown), logout(StorageWorking))
  /\ currentUser # NOUSER => OneEntryAdded(State, logout(StorageDown))
  /\ \A d \in {log(StorageDown, s_system, "login", <<"{", "}">>, "DENIED", m_InvalidCredentials)} :
       /\ d.logs = <<newEntry(State, s_system, "login", <<"{", "}">>, "DENIED",
                              m_InvalidCredentials)>> \o logs
       /\ d.stored = stored

C20_Witness ==
  /\ last.op = "syscall"
  /\ last.name = "get_info"
  /\ last.ok
  /\ ~storageUp
  /\ Len(logs) = 1
  /\ logs[1].syscall = "get_info"
  /\ logs[1].status = "ALLOWED"
  /\ loadLogs(stored) # logs

(***************************************************************************)
(* C21.  The authentication check comes before the name is looked up:      *)
(* with an active session a name outside the eight registered syscalls     *)
(* fails with 'Unknown system call', is logged as ERROR and changes no     *)
(* state but the audit log; with no session the same name fails with 'Not  *)
(* logged in', never with 'Unknown system call'.                           *)
(***************************************************************************)
UnknownNames == {"reboot", "delete_file", "logout", "GET_INFO", "toString", ""}

C21_AuthBeforeLookup ==
  \A name \in UnknownNames, args \in {<<>>, <<p_etc_passwd>>, <<p_etc_passwd, s_x>>} :
    \A o \in {syscall(State, name, args)} :
      /\ ~o.ok
      /\ o.err = IF currentUser = NOUSER THEN m_NotLoggedIn ELSE m_UnknownSyscall
      /\ OneEntryAdded(State, o.S)
      /\ o.S.logs[1].status = "ERROR"
      /\ o.S.logs[1].syscall = name
      /\ KernelUnchanged(State, o.S)

C21_Witness ==
  /\ last.op = "syscall"
  /\ last.name = "reboot"
  /\ ~last.ok
  /\ last.err = m_UnknownSyscall
  /\ currentUser = STDUSER
  /\ logs[1].status = "ERROR"
  /\ logs[1].user = s_user
  /\ root = SeedRoot

(***************************************************************************)
(* Where a path leads, read off the tree itself: the location its segments *)
(* name, and the location of the directory that would hold it.             *)
(***************************************************************************)
FsStringPaths == {p \in FsProbePaths : IsString(p)}

\* the location one level up; the root has none
ParentLoc(d) == SubSeq(d, 1, Len(d) - 1)

(***************************************************************************)
(* C22.  readFile and writeFile fail with 'File not found' when the path   *)
(* does not resolve to a node and with 'Is a directory' when it resolves   *)
(* to a directory, the root path '/' included; a writeFile that fails      *)
(* leaves the tree unchanged, and one that succeeds changes only the       *)
(* content of the one file and neither adds nor removes a node.            *)
(***************************************************************************)
FailsUnchanged(r, o, message) == ~o.ok /\ o.err = message /\ o.root = r

C22_ReadWriteErrors ==
  \A p \in FsStringPaths :
    \A d \in {pathParts(p)}, rd \in {readFile(root, p)}, w \in {writeFile(root, p, s_x)} :
      IF d \notin DOMAIN root
        THEN ~rd.ok /\ rd.err = m_FileNotFound /\ FailsUnchanged(root, w, m_FileNotFound)
      ELSE IF root[d].type = "dir"
        THEN ~rd.ok /\ rd.err = m_IsADirectory /\ FailsUnchanged(root, w, m_IsADirectory)
      ELSE /\ rd.ok /\ rd.val = root[d].content
           /\ w.ok
           /\ w.root = [root EXCEPT ![d].content = s_x]

(***************************************************************************)
(* C23.  createFile fails with 'Parent directory does not exist' whenever  *)
(* the parent path does not resolve or resolves to a file, creates no      *)
(* intermediate directory, and leaves the tree unchanged on that failure;  *)
(* otherwise, when the name is free, it adds exactly one file node under   *)
(* the parent and changes nothing else.  This holds for every path, '/'    *)
(* and the empty path, which have no parent, included.                     *)
(***************************************************************************)
\* the names of the children of the node at q
ChildNames(r, q) == {r[q].children[i] : i \in 1..Len(r[q].children)}

\* tree a is tree r with exactly one node more, a file at location d with the
\* content given, entered once in its parent
OneFileAdded(r, a, d, content) ==
  /\ DOMAIN a = (DOMAIN r) \cup {d}
  /\ a[d] = [type |-> "file", content |-> content, children |-> <<>>]
  /\ \A q \in DOMAIN r : q # ParentLoc(d) => a[q] = r[q]
  /\ a[ParentLoc(d)].type = "dir"
  /\ ChildNames(a, ParentLoc(d)) = ChildNames(r, ParentLoc(d)) \cup {d[Len(d)]}
  /\ Len(a[ParentLoc(d)].children) = Len(r[ParentLoc(d)].children) + 1

C23_CreateFile ==
  \A p \in FsStringPaths :
    \A d \in {pathParts(p)}, o \in {createFile(root, p, s_y)} :
      IF d = <<>> \/ ParentLoc(d) \notin DOMAIN root
        THEN FailsUnchanged(root, o, m_ParentMissing)
      ELSE IF root[ParentLoc(d)].type = "file"
        THEN FailsUnchanged(root, o, m_ParentMissing)
      ELSE IF d \in DOMAIN root
        THEN FailsUnchanged(root, o, m_AlreadyExists)
      ELSE /\ o.ok
           /\ OneFileAdded(root, o.root, d, s_y)

(***************************************************************************)
(* C24.  deleteFile(p) fails with 'File not found' and leaves the tree     *)
(* unchanged when the parent of p does not resolve or has no child with    *)
(* the name of p; otherwise it removes that child, so that afterwards p    *)
(* does not exist and no path through p resolves, while every node not at  *)
(* or under p is unchanged.                                                *)
(***************************************************************************)
C24_DeleteFile ==
  \A p \in FsStringPaths :
    \A d \in {pathParts(p)}, o \in {deleteFile(root, p)} :
      IF d \notin DOMAIN root \/ d = <<>>
        THEN FailsUnchanged(root, o, m_FileNotFound)
      ELSE /\ o.ok
           /\ ~fileExists(o.root, p).val
           /\ DOMAIN o.root = {q \in DOMAIN root : ~atOrBelow(q, d)}
           /\ \A q \in DOMAIN o.root : q # ParentLoc(d) => o.root[q] = root[q]
           /\ o.root[ParentLoc(d)].type = "dir"
           /\ ChildNames(o.root, ParentLoc(d)) = ChildNames(root, ParentLoc(d)) \ {d[Len(d)]}

(***************************************************************************)
(* C25.  A syscall that fails, for any reason, changes nothing but the     *)
(* audit log: session, file tree, process table and nextPid are as before  *)
(* the call, and a syscall issued next behaves as if the failed call had   *)
(* not been made, apart from the log.                                      *)
(***************************************************************************)
\* calls made after a failed one
FollowUps ==
  { <<"create_process", <<s_sh>>>>, <<"kill_process", <<s_100>>>>,
    <<"write_file", <<p_etc_passwd, s_y>>>>, <<"create_file", <<p_shadow, s_y>>>> }

\* outcome a, after the failed call, is outcome b, without it, but for the
\* entry of the failed call in the log and in the stored text
SameApartFromLog(a, b) ==
  /\ a.ok = b.ok /\ a.err = b.err /\ a.val = b.val
  /\ KernelUnchanged(a.S, b.S)
  /\ a.S.logs[1] = b.S.logs[1]

C25_FailedCallChangesNothing ==
  \A c \in SampleCalls :
    \A o \in {syscall(State, c[1], c[2])} :
      ~o.ok =>
        /\ KernelUnchanged(State, o.S)
        /\ OneEntryAdded(State, o.S)
        /\ o.S.now = now /\ o.S.storageUp = storageUp
        /\ \A f \in FollowUps :
             SameApartFromLog(syscall(o.S, f[1], f[2]), syscall(State, f[1], f[2]))

\* the write to /etc/passwd of the standard account has failed, and the tree
\* is the seeded one
C25_Witness ==
  /\ last.op = "syscall"
  /\ last.name = "write_file"
  /\ last.args = <<p_etc_passwd, s_y>>
  /\ ~last.ok
  /\ last.err = m_EtcReadOnly
  /\ currentUser = STDUSER
  /\ PidsOf(processes) = {100}
  /\ nextPid = 101
  /\ root = SeedRoot

(***************************************************************************)
(* C26.  Path handling as the specification states it: a path with a       *)
(* doubled or a trailing separator does not resolve to the node of the     *)
(* single-separator path, and '/home/../etc' resolves to absent in the     *)
(* seeded tree.                                                            *)
(***************************************************************************)
p_etc_dbl_passwd == <<"/","e","t","c","/","/","p","a","s","s","w","d">>
p_home_dotdot_etc == <<"/","h","o","m","e","/",".",".","/","e","t","c">>
p_etc_dot_passwd == <<"/","e","t","c","/",".","/","p","a","s","s","w","d">>

C26_AsStated ==
  /\ \A p \in {p_etc_dbl_passwd, p_dbl_etc_passwd, p_etc_passwd_slash} :
       resolvePath(root, p).node # resolvePath(root, p_etc_passwd).node
  /\ root = SeedRoot => resolvePath(root, p_home_dotdot_etc).node = NULLREF

(***************************************************************************)
(* C26, as the code has it.  Empty segments are dropped, so duplicate,     *)
(* leading and trailing separators collapse and a missing leading          *)
(* separator makes no difference: every spelling of the segments of a node *)
(* resolves to that node, and every operation on a respelled path has the  *)
(* outcome it has on the plain path.  '.' and '..' are not interpreted:    *)
(* they are literal child names, so '/home/../etc' and '/etc/./passwd'     *)
(* resolve to absent while no child has such a name.                       *)
(***************************************************************************)
\* the path of location q with every separator written twice and one more
\* at the end: //a//b/
RECURSIVE Sloppy(_)
Sloppy(q) ==
  IF q = <<>> THEN <<"/">> ELSE <<"/", "/">> \o q[1] \o Sloppy(Tail(q))

\* the path of location q without the leading separator: a/b
Relative(q) == join(q)

\* other spellings of the string p
Respelled(p) ==
  {<<"/">> \o p, p \o <<"/">>} \cup (IF p # <<>> /\ p[1] = "/" THEN {Tail(p)} ELSE {})

C26_SeparatorsCollapse ==
  /\ \A q \in DOMAIN root :
       /\ resolvePath(root, Sloppy(q)).node = q
       /\ resolvePath(root, Relative(q)).node = q
  /\ \A p \in FsStringPaths : \A p2 \in Respelled(p) :
       /\ resolvePath(root, p2) = resolvePath(root, p)
       /\ readFile(root, p2) = readFile(root, p)
       /\ writeFile(root, p2, s_y) = writeFile(root, p, s_y)
  /\ \A p \in {p_home_dotdot_etc, p_etc_dot_passwd} :
       resolvePath(root, p).node = NULLREF

\* /etc/7 has been created, and the spelling //etc//7/ resolves to it
C26_Witness ==
  /\ last.op = "createFile"
  /\ last.args[1] = p_etc_7
  /\ last.ok
  /\ resolvePath(root, <<"/","/","e","t","c","/","/","7","/">>).node = <<n_etc, <<"7">>>>
  /\ resolvePath(root, p_etc_dbl_passwd).node = resolvePath(root, p_etc_passwd).node
  /\ resolvePath(root, p_etc_passwd).node = <<n_etc, n_passwd>>

(***************************************************************************)
(* C27.  Over any sequence of login, logout and syscall operations, the    *)
(* content of a file in the /etc subtree changes only during a write_file  *)
(* call made under a root session, whatever the spelling of the path a     *)
(* non-root session passes.                                                *)
(***************************************************************************)
\* the files of the /etc subtree of tree r
EtcFiles(r) == {q \in DOMAIN r : q # <<>> /\ q[1] = n_etc /\ r[q].type = "file"}

EtcContentStep ==
  \A q \in EtcFiles(root) :
    (q \in DOMAIN root' /\ root'[q].content # root[q].content) =>
      /\ last'.op = "syscall"
      /\ last'.name = "write_file"
      /\ currentUser = ROOTUSER

C27_EtcWrittenByRootOnly == [][EtcContentStep]_vars

(***************************************************************************)
(* C28.  In every reachable state, under either session, read_file returns *)
(* no content for a path that resolves to a file and has a segment named   *)
(* exactly 'shadow', whatever the spelling of the path, one without the    *)
(* leading separator included.                                             *)
(***************************************************************************)
HasShadowSegment(p) == \E i \in 1..Len(pathParts(p)) : pathParts(p)[i] = p_rel_shadow

C28_ShadowSegmentNeverRead ==
  currentUser # NOUSER =>
    \A p \in {q \in ProbePaths : IsString(q) /\ HasShadowSegment(q)} :
      ResolvesToFile(root, p) =>
        \A o \in {syscall(State, "read_file", <<p>>)} :
          /\ ~o.ok
          /\ o.val = UNDEF

(***************************************************************************)
(* C29.  In every reachable state the process table holds pairwise         *)
(* distinct pids, each at least 100 and below nextPid; every record has    *)
(* status running; every record other than the init record (pid 100,       *)
(* owner 'system') is owned by the root account; and the size of the table *)
(* is 1 plus the successful create_process calls minus the successful      *)
(* kill_process calls: it starts at 1, a successful create_process adds    *)
(* one, a successful kill_process removes one, the init process included,  *)
(* and no other step changes it.                                           *)
(***************************************************************************)
RootUsernames == {s_admin}

ProcessTableWellFormed ==
  /\ \A i, j \in 1..Len(processes) : i # j => processes[i].pid # processes[j].pid
  /\ \A i \in 1..Len(processes) :
       /\ processes[i].pid >= 100
       /\ processes[i].pid < nextPid
       /\ processes[i].status = "running"
       /\ IF processes[i].name = n_init /\ processes[i].pid = 100
            THEN processes[i].owner = s_system
            ELSE processes[i].owner \in RootUsernames

\* what the step just taken does to the size of the table
SizeStep ==
  Len(processes') =
    IF last'.op = "syscall" /\ last'.name = "create_process" /\ last'.ok
      THEN Len(processes) + 1
    ELSE IF last'.op = "syscall" /\ last'.name = "kill_process" /\ last'.ok
      THEN Len(processes) - 1
    ELSE Len(processes)

C29_ProcessTable ==
  /\ Len(processes) = 1
  /\ []ProcessTableWellFormed
  /\ [][SizeStep]_vars

\* two processes were created under the administrator, and they and the init
\* process have been killed: the table is empty
C29_Witness ==
  /\ processes = <<>>
  /\ nextPid = 103
  /\ last.op = "syscall" /\ last.name = "kill_process" /\ last.ok

(***************************************************************************)
(* C30.  The dispatcher only grows the tree with files.  In every          *)
(* reachable state the seeded nodes are all present with their seeded      *)
(* types and the directories are exactly the seeded ones; and a syscall    *)
(* removes no node and changes no node's type, a successful create_file    *)
(* adds exactly one file, a successful write_file changes the content of   *)
(* exactly one file, and every other call (get_info, open_file, read_file, *)
(* list_dir, create_process, kill_process, an unknown name, or a call that *)
(* fails) leaves the tree as it was.                                       *)
(***************************************************************************)
Dirs(r) == {q \in DOMAIN r : r[q].type = "dir"}

\* tree a is tree r but for the content of one file, which is content
OneContentWritten(r, a, content) ==
  /\ DOMAIN a = DOMAIN r
  /\ \E q \in DOMAIN r :
       /\ r[q].type = "file"
       /\ a[q] = [r[q] EXCEPT !.content = content]
       /\ \A q2 \in DOMAIN r : q2 # q => a[q2] = r[q2]

TreeCalls == SampleCalls \cup FileCalls

C30_TreeOnlyGrowsWithFiles ==
  /\ Dirs(root) = Dirs(SeedRoot)
  /\ \A q \in DOMAIN SeedRoot : q \in DOMAIN root /\ root[q].type = SeedRoot[q].type
  /\ \A c \in TreeCalls :
       \A o \in {syscall(State, c[1], c[2])} :
         /\ \A q \in DOMAIN root : q \in DOMAIN o.S.root /\ o.S.root[q].type = root[q].type
         /\ Dirs(o.S.root) = Dirs(root)
         /\ IF o.ok /\ c[1] = "create_file"
              THEN OneFileAdded(root, o.S.root, pathParts(c[2][1]), c[2][2])
            ELSE IF o.ok /\ c[1] = "write_file"
              THEN OneContentWritten(root, o.S.root, c[2][2])
            ELSE o.S.root = root

\* /shadow has been created and /etc/passwd written: the tree is the seeded
\* one with one more file and one other content
C30_Witness ==
  /\ last.op = "syscall" /\ last.name = "write_file" /\ last.ok
  /\ DOMAIN root = (DOMAIN SeedRoot) \cup {<<p_rel_shadow>>}
  /\ root[<<p_rel_shadow>>] = FileNode(s_x)
  /\ root[<<n_etc, n_passwd>>].content = s_y
  /\ Dirs(root) = Dirs(SeedRoot)

(***************************************************************************)
(* C31.  Sessions.  In every reachable state there is at most one session, *)
(* and its role is root exactly when its username is admin.  A successful  *)
(* login made while a session is active replaces that session and adds     *)
(* exactly one entry to the log, the login entry: no logout entry is       *)
(* recorded for the replaced user.  Neither login, successful or not, nor  *)
(* logout changes the file tree, the process table or nextPid.             *)
(***************************************************************************)
SessionWellFormed(u) ==
  \/ u = NOUSER
  \/ /\ u \in {ROOTUSER, STDUSER}
     /\ (u.role = "root") <=> (u.username = s_admin)

\* the tree, the table and nextPid of state b are those of state a
SameTreeAndTable(a, b) ==
  b.root = a.root /\ b.processes = a.processes /\ b.nextPid = a.nextPid

GoodLogins == {<<s_admin, s_admin123, ROOTUSER>>, <<s_user, s_user123, STDUSER>>}

C31_Sessions ==
  /\ SessionWellFormed(currentUser)
  /\ \A c \in GoodLogins :
       \A o \in {login(State, c[1], c[2])} :
         /\ o.val = TRUE
         /\ o.S.currentUser = c[3]
         /\ SessionWellFormed(o.S.currentUser)
         /\ OneEntryAdded(State, o.S)
         /\ o.S.logs[1].syscall = "login"
         /\ o.S.logs[1].user = s_system
         /\ \A i \in 1..Len(o.S.logs) :
              o.S.logs[i].syscall = "logout" =>
                i > 1 /\ o.S.logs[i] = logs[i - 1]
         /\ SameTreeAndTable(State, o.S)
  /\ \A c \in BadLogins :
       \A o \in {login(State, c[1], c[2])} :
         SessionWellFormed(o.S.currentUser) /\ SameTreeAndTable(State, o.S)
  /\ \A o \in {logout(State)} :
       SessionWellFormed(o.currentUser) /\ SameTreeAndTable(State, o)

\* the administrator created a process, and the login of the standard
\* account then replaced the administrator's session: the log holds the
\* login entry alone
C31_Witness ==
  /\ last.op = "login" /\ last.ok
  /\ last.args = <<s_user, s_user123>>
  /\ currentUser = STDUSER
  /\ \E i \in 1..Len(processes) : processes[i].owner = s_admin
  /\ Len(logs) = 1
  /\ logs[1].syscall = "login"

====
